---- MODULE Spec2Model ----
(***************************************************************************)
(* A model of the echo-orchestrator agent runtime: the coordination hub    *)
(* (orchestrator_hub.py), the response parser (parser.py), the action      *)
(* handlers (action_handler.py), the turn executor (turn_executor.py), the *)
(* subagent driver (subagent.py) and the orchestrator driver               *)
(* (orchestrator_agent.py).                                                *)
(*                                                                         *)
(* Python objects are modelled by value; the one object that is shared by  *)
(* reference, the hub, lives in the heap `hubs` and is named by its index. *)
(* Optional values are sequences: <<>> is None and <<v>> is the value v.   *)
(***************************************************************************)
EXTENDS Integers, Sequences, FiniteSets, TLC

VARIABLES
    hubs,        \* heap of OrchestratorHub objects, hubs[r] is the hub with reference r
    stack,       \* call stack of running agents: stack[1] is the root, the last is running
    clock,       \* datetime.now(): a logical clock that ticks when it is read
    call,        \* the last call a client of the hub API made, and what it returned
    psrInvoked,  \* history: task ids process_subagent_result was invoked for on hubs[1]
    harvest      \* history: the token counts of every report returned to the root agent

vars == <<hubs, stack, clock, call, psrInvoked, harvest>>

---------------------------------------------------------------------------
(* Bounds of the model. *)

MaxTasks == 2      \* create_task calls per hub
MaxClock == 1      \* readings of datetime.now() by direct calls of the hub API
MaxReplyLen == 3   \* top-level tags in one LLM reply
MaxOrchTurns == 1  \* largest max_turns an orchestrator run is given
MaxSubTurns == 1   \* largest max_turns a directly constructed subagent is given
LaunchedMaxTurns == 1  \* max_turns of a subagent a handler launches (the default, scaled down)
MaxRunTurns == 2   \* largest max_turns of a run that is followed to its return
MaxAdded == 110    \* add_turn calls on one ConversationHistory

---------------------------------------------------------------------------
(* Python values. *)

NoneV == <<>>
Some(v) == <<v>>
IsNone(o) == o = <<>>

EmptyMap == [k \in {} |-> k]

\* d[k] = v on a dict: the key is added, or its value replaced.
Put(d, k, v) == [y \in (DOMAIN d) \cup {k} |-> IF y = k THEN v ELSE d[y]]

RECURSIVE Digits(_)
Digits(n) == IF n < 10 THEN <<n>> ELSE Digits(n \div 10) \o <<n % 10>>

\* f"{n:0{w}d}": the decimal digits of n, zero-padded on the left to w digits.
ZeroPad(n, w) ==
    LET ds == Digits(n)
    IN  IF Len(ds) >= w THEN ds ELSE [i \in 1..(w - Len(ds)) |-> 0] \o ds

---------------------------------------------------------------------------
(* orchestrator_hub.py: OrchestratorHub.  Each operation is a function of   *)
(* the hub object; it returns the hub after the call and the call's value. *)

NewHub == [tasks |-> EmptyMap, context_store |-> EmptyMap, task_counter |-> 0]

\* f"task_{self.task_counter:03d}"
TaskId(counter) == <<"task_">> \o ZeroPad(counter, 3)

NewTask(task_id, agent_type) ==
    [task_id      |-> task_id,
     agent_type   |-> agent_type,
     status       |-> "created",
     completed_at |-> NoneV,
     result       |-> NoneV]

\* A hub that numbers a task by the tasks created before it, counting from
\* the first; the id property must tell it from create_task.
create_task_reusing_id(hub, agent_type) ==
    LET counter == IF hub.task_counter = 0 THEN 1 ELSE hub.task_counter
        task_id == TaskId(counter)
    IN  [hub |-> [hub EXCEPT !.task_counter = counter,
                             !.tasks = Put(@, task_id, NewTask(task_id, agent_type))],
         ret |-> task_id]

create_task(hub, agent_type) ==
    LET counter == hub.task_counter + 1
        task_id == TaskId(counter)
    IN  [hub |-> [hub EXCEPT !.task_counter = counter,
                             !.tasks = Put(@, task_id, NewTask(task_id, agent_type))],
         ret |-> task_id]

get_task(hub, task_id) ==
    IF task_id \in DOMAIN hub.tasks THEN Some(hub.tasks[task_id]) ELSE NoneV

update_task_status(hub, task_id, status, now) ==
    IF task_id \notin DOMAIN hub.tasks
    THEN [hub |-> hub, ret |-> FALSE]
    ELSE [hub |-> [hub EXCEPT
                     !.tasks[task_id].status = status,
                     !.tasks[task_id].completed_at =
                         IF status = "completed" THEN Some(now) ELSE @],
          ret |-> TRUE]

NewContext(context_id, content, reported_by, task_id) ==
    [id |-> context_id, content |-> content, reported_by |-> reported_by,
     task_id |-> task_id]

\* A store that lets a later write replace an entry; the immutability
\* property must tell it from add_context.
add_context_overwriting(hub, context_id, content, reported_by, task_id) ==
    [hub |-> [hub EXCEPT !.context_store =
                Put(@, context_id,
                    NewContext(context_id, content, reported_by, task_id))],
     ret |-> TRUE]

\* A store that keeps an existing entry and still reports the write as
\* done; the result property must tell it from add_context.
add_context_reporting_success(hub, context_id, content, reported_by, task_id) ==
    IF context_id \in DOMAIN hub.context_store
    THEN [hub |-> hub, ret |-> TRUE]
    ELSE [hub |-> [hub EXCEPT !.context_store =
                     Put(@, context_id,
                         NewContext(context_id, content, reported_by, task_id))],
          ret |-> TRUE]

add_context(hub, context_id, content, reported_by, task_id) ==
    IF context_id \in DOMAIN hub.context_store
    THEN [hub |-> hub, ret |-> FALSE]
    ELSE [hub |-> [hub EXCEPT !.context_store =
                     Put(@, context_id,
                         NewContext(context_id, content, reported_by, task_id))],
          ret |-> TRUE]

\* The loop of process_subagent_result over report.contexts[i..]: acc is the
\* hub and the list stored_context_ids so far.  An item is a ContextItem.
RECURSIVE StoreContexts(_, _, _, _)
StoreContexts(acc, task_id, contexts, i) ==
    IF i > Len(contexts) THEN acc
    ELSE LET ctx == contexts[i]
         IN  IF ctx.id # "" /\ ctx.content # ""
             THEN LET r == add_context(acc.hub, ctx.id, ctx.content,
                                       task_id, Some(task_id))
                  IN  StoreContexts(
                          [hub |-> r.hub,
                           stored |-> IF r.ret THEN Append(acc.stored, ctx.id)
                                               ELSE acc.stored],
                          task_id, contexts, i + 1)
             ELSE StoreContexts(acc, task_id, contexts, i + 1)

\* A hub that stores the contexts of a report and leaves the task as it was;
\* the task lifecycle property must tell it from process_subagent_result.
process_subagent_result_keeping_status(hub, task_id, report, now) ==
    LET st == StoreContexts([hub |-> hub, stored |-> <<>>], task_id,
                            report.contexts, 1)
    IN  [hub |-> st.hub,
         ret |-> [task_id |-> task_id, context_ids_stored |-> st.stored,
                  comments |-> report.comments]]

process_subagent_result(hub, task_id, report, now) ==
    LET st     == StoreContexts([hub |-> hub, stored |-> <<>>], task_id,
                                report.contexts, 1)
        result == [task_id |-> task_id,
                   context_ids_stored |-> st.stored,
                   comments |-> report.comments]
        task   == get_task(st.hub, task_id)
    IN  IF ~IsNone(task)
        THEN [hub |-> update_task_status(
                          [st.hub EXCEPT !.tasks[task_id].result = Some(result)],
                          task_id, "completed", now).hub,
              ret |-> result]
        ELSE [hub |-> st.hub, ret |-> result]

---------------------------------------------------------------------------
(* action_handler.py: a handler returns (output, is_error); an output is   *)
(* the tool label of format_tool_output and the text it wraps.             *)

\* An environment response: a handler's output, "[PARSE ERROR] ...",
\* "[ERROR] Action execution failed: ..." or "No actions were attempted."
EnvResponse(kind, tool_name, content) ==
    [kind |-> kind, tool |-> tool_name, text |-> content]

format_tool_output(tool_name, content) == EnvResponse("output", tool_name, content)

\* _handle_add_context
HandleAddContext(hub, action) ==
    LET r == add_context(hub, action.id, action.content, action.reported_by,
                         action.task_id)
    IN  [hub |-> r.hub,
         ret |-> r.ret,
         output |-> format_tool_output("context",
                        IF r.ret THEN <<"Added context", action.id>>
                                 ELSE <<"[WARNING] Context already exists", action.id>>),
         is_error |-> ~r.ret]

---------------------------------------------------------------------------
(* actions/state_managers.py: TodoManager.  todos maps an id to the todo   *)
(* [content, status]; a content is what the operation carried: None, or    *)
(* Some string.                                                            *)

NewTodoManager == [todos |-> EmptyMap, next_id |-> 1]

\* A manager that gives a new todo the smallest id that is free; the id
\* property must tell it from Todo_add_task.
Todo_add_task_reusing_ids(tm, content) ==
    LET free == CHOOSE k \in 1..tm.next_id :
                    /\ k \notin DOMAIN tm.todos
                    /\ \A j \in 1..(k - 1) : j \in DOMAIN tm.todos
    IN  [todo_manager |-> [todos |-> Put(tm.todos, free,
                                         [content |-> content, status |-> "pending"]),
                           next_id |-> IF free = tm.next_id THEN tm.next_id + 1
                                       ELSE tm.next_id],
         ret |-> free]

Todo_add_task(tm, content) ==
    [todo_manager |-> [todos |-> Put(tm.todos, tm.next_id,
                                     [content |-> content, status |-> "pending"]),
                       next_id |-> tm.next_id + 1],
     ret |-> tm.next_id]

\* task_id is an Optional[int]; None is the key of no todo.
Todo_has(tm, task_id) == ~IsNone(task_id) /\ task_id[1] \in DOMAIN tm.todos

\* A manager for which a completed todo leaves the list; the scenario
\* property must tell it from Todo_complete_task.
Todo_complete_task_removing(tm, task_id) ==
    IF Todo_has(tm, task_id)
    THEN [todo_manager |->
              [tm EXCEPT !.todos = [k \in (DOMAIN tm.todos) \ {task_id[1]} |->
                                       tm.todos[k]]],
          ret |-> TRUE]
    ELSE [todo_manager |-> tm, ret |-> FALSE]

Todo_complete_task(tm, task_id) ==
    IF Todo_has(tm, task_id)
    THEN [todo_manager |-> [tm EXCEPT !.todos[task_id[1]].status = "completed"],
          ret |-> TRUE]
    ELSE [todo_manager |-> tm, ret |-> FALSE]

Todo_delete_task(tm, task_id) ==
    IF Todo_has(tm, task_id)
    THEN [todo_manager |->
              [tm EXCEPT !.todos = [k \in (DOMAIN tm.todos) \ {task_id[1]} |->
                                       tm.todos[k]]],
          ret |-> TRUE]
    ELSE [todo_manager |-> tm, ret |-> FALSE]

Todo_get_task(tm, task_id) ==
    IF Todo_has(tm, task_id) THEN Some(tm.todos[task_id[1]]) ELSE NoneV

\* sorted(self.todos.items())
RECURSIVE SortedIds(_)
SortedIds(ids) ==
    IF ids = {} THEN <<>>
    ELSE LET least == CHOOSE k \in ids : \A j \in ids : k <= j
         IN  <<least>> \o SortedIds(ids \ {least})

\* view_all: "Todo list is empty.", or the header and a line for each todo;
\* the f-string renders a content of None as a text of its own.
Todo_view_all(tm) ==
    LET ids == SortedIds(DOMAIN tm.todos)
    IN  [empty |-> tm.todos = EmptyMap,
         lines |-> [i \in 1..Len(ids) |->
                       [completed |-> tm.todos[ids[i]].status = "completed",
                        task_id |-> ids[i],
                        content |-> tm.todos[ids[i]].content]]]

---------------------------------------------------------------------------
(* action_handler.py: truncate_content and _handle_batch_todo.             *)

TruncateMaxLength == 15

\* content[:max_length] + "..." if len(content) > max_length else content
truncate_content(content) ==
    IF Len(content) > TruncateMaxLength
    THEN SubSeq(content, 1, TruncateMaxLength) \o <<".", ".", ".">>
    ELSE content

\* A line of `results`: "Added todo [id]: text", "Completed task [id]:
\* text", "Deleted task [id]: text", "Task id is already completed" or
\* "[ERROR] Task id not found".
TodoLine(kind, task_id, text) == [kind |-> kind, task_id |-> task_id, text |-> text]

\* truncate_content(content) for the Optional content of an operation or
\* of a stored todo: len(None) raises TypeError, which leaves the handler.
TodoEcho(acc, kind, task_id, content) ==
    IF IsNone(content)
    THEN [acc EXCEPT !.raised = TRUE]
    ELSE [acc EXCEPT !.results =
              Append(@, TodoLine(kind, task_id, truncate_content(content[1])))]

\* A loop body that leaves the loop at the first operation that fails; the
\* batch property must tell it from BatchTodoStep.
BatchTodoStepStoppingAtError(acc, op) ==
    LET tm   == acc.todo_manager
        task == Todo_get_task(tm, op.task_id)
        fail == [acc EXCEPT !.results = Append(@, TodoLine("error", op.task_id, <<>>)),
                            !.has_error = TRUE,
                            !.stopped = TRUE]
    IN  IF acc.stopped THEN acc
        ELSE IF op.action = "add"
        THEN LET r == Todo_add_task(tm, op.content)
             IN  TodoEcho([acc EXCEPT !.todo_manager = r.todo_manager],
                          "added", Some(r.ret), op.content)
        ELSE IF op.action = "complete"
        THEN IF IsNone(task) THEN fail
             ELSE IF task[1].status = "completed"
             THEN [acc EXCEPT !.results =
                       Append(@, TodoLine("already_completed", op.task_id, <<>>))]
             ELSE TodoEcho([acc EXCEPT !.todo_manager =
                                Todo_complete_task(tm, op.task_id).todo_manager],
                           "completed", op.task_id, task[1].content)
        ELSE IF op.action = "delete"
        THEN IF IsNone(task) THEN fail
             ELSE TodoEcho([acc EXCEPT !.todo_manager =
                                Todo_delete_task(tm, op.task_id).todo_manager],
                           "deleted", op.task_id, task[1].content)
        ELSE acc

\* The body of the loop of _handle_batch_todo for one operation: acc is
\* [todo_manager, results, has_error], with `raised` once an exception has
\* left the handler.
BatchTodoStep(acc, op) ==
    LET tm   == acc.todo_manager
        task == Todo_get_task(tm, op.task_id)
        fail == [acc EXCEPT !.results = Append(@, TodoLine("error", op.task_id, <<>>)),
                            !.has_error = TRUE]
    IN  IF op.action = "add"
        THEN LET r == Todo_add_task(tm, op.content)
             IN  TodoEcho([acc EXCEPT !.todo_manager = r.todo_manager],
                          "added", Some(r.ret), op.content)
        ELSE IF op.action = "complete"
        THEN IF IsNone(task) THEN fail
             ELSE IF task[1].status = "completed"
             THEN [acc EXCEPT !.results =
                       Append(@, TodoLine("already_completed", op.task_id, <<>>))]
             ELSE TodoEcho([acc EXCEPT !.todo_manager =
                                Todo_complete_task(tm, op.task_id).todo_manager],
                           "completed", op.task_id, task[1].content)
        ELSE IF op.action = "delete"
        THEN IF IsNone(task) THEN fail
             ELSE TodoEcho([acc EXCEPT !.todo_manager =
                                Todo_delete_task(tm, op.task_id).todo_manager],
                           "deleted", op.task_id, task[1].content)
        ELSE acc

RECURSIVE BatchTodoFrom(_, _, _)
BatchTodoFrom(acc, operations, i) ==
    IF i > Len(operations) \/ acc.raised THEN acc
    ELSE BatchTodoFrom(BatchTodoStep(acc, operations[i]), operations, i + 1)

\* _handle_batch_todo on the todo manager tm: the manager after it and what
\* the activation did; the output is the joined results and, if
\* action.view_all, the view of the list after the loop.
HandleBatchTodo(tm, action) ==
    LET acc == BatchTodoFrom([todo_manager |-> tm, results |-> <<>>,
                              has_error |-> FALSE, raised |-> FALSE,
                              stopped |-> FALSE],
                             action.operations, 1)
    IN  IF acc.raised
        THEN [todo_manager |-> acc.todo_manager, outcome |-> "raised",
              output |-> <<"TypeError">>, is_error |-> TRUE]
        ELSE [todo_manager |-> acc.todo_manager, outcome |-> "returned",
              output |-> format_tool_output("todo",
                             [results |-> acc.results,
                              view |-> IF action.view_all
                                       THEN Some(Todo_view_all(acc.todo_manager))
                                       ELSE NoneV]),
              is_error |-> acc.has_error]

---------------------------------------------------------------------------
(* entities/actions.py: the pydantic models.  A tag's payload is the YAML  *)
(* document of the tag: `yaml` says whether it decodes ("error": it does   *)
(* not; "scalar": to a scalar or null; "mapping": to the mapping `data`).  *)
(* A validator returns the action with its defaults filled in, or fails.   *)

Has(d, f) == f \in DOMAIN d
Get(d, f, default) == IF Has(d, f) THEN d[f] ELSE default

Invalid == [ok |-> FALSE]
Valid(action) == [ok |-> TRUE, action |-> action]

\* class Config: extra = "forbid"
NoExtra(d, fields) == DOMAIN d \subseteq fields

BashAction(d) ==
    IF /\ NoExtra(d, {"cmd", "block", "timeout_secs"})
       /\ Has(d, "cmd") /\ d.cmd # ""
       /\ Has(d, "timeout_secs") => (d.timeout_secs > 0 /\ d.timeout_secs <= 300)
    THEN Valid([type |-> "bash", cmd |-> d.cmd, block |-> Get(d, "block", TRUE),
                timeout_secs |-> Get(d, "timeout_secs", 30)])
    ELSE Invalid

FinishAction(d) ==
    IF NoExtra(d, {"message"})
    THEN Valid([type |-> "finish", message |-> Get(d, "message", "Task completed")])
    ELSE Invalid

ReadAction(d) ==
    IF /\ NoExtra(d, {"file_path", "offset", "limit"})
       /\ Has(d, "file_path") /\ d.file_path # ""
       /\ Has(d, "offset") => d.offset >= 0
       /\ Has(d, "limit") => d.limit > 0
    THEN Valid([type |-> "read", file_path |-> d.file_path,
                offset |-> IF Has(d, "offset") THEN Some(d.offset) ELSE NoneV,
                limit |-> IF Has(d, "limit") THEN Some(d.limit) ELSE NoneV])
    ELSE Invalid

TaskCreateAction(d) ==
    IF /\ NoExtra(d, {"agent_type", "title", "description", "context_refs",
                      "context_bootstrap", "auto_launch"})
       /\ Has(d, "agent_type") /\ d.agent_type \in {"exploratory", "coder"}
       /\ Has(d, "title") /\ d.title # ""
       /\ Has(d, "description") /\ d.description # ""
    THEN Valid([type |-> "task_create", agent_type |-> d.agent_type,
                title |-> d.title, description |-> d.description,
                auto_launch |-> Get(d, "auto_launch", FALSE)])
    ELSE Invalid

AddContextAction(d) ==
    IF /\ NoExtra(d, {"id", "content", "reported_by", "task_id"})
       /\ Has(d, "id") /\ d.id # ""
       /\ Has(d, "content") /\ d.content # ""
    THEN Valid([type |-> "add_context", id |-> d.id, content |-> d.content,
                reported_by |-> Get(d, "reported_by", <<"?">>),
                task_id |-> IF Has(d, "task_id") THEN Some(d.task_id) ELSE NoneV])
    ELSE Invalid

LaunchSubagentAction(d) ==
    IF NoExtra(d, {"task_id"}) /\ Has(d, "task_id") /\ d.task_id # <<>>
    THEN Valid([type |-> "launch_subagent", task_id |-> d.task_id])
    ELSE Invalid

\* contexts: List[dict]: the entries are not validated any further.
ReportAction(d) ==
    IF NoExtra(d, {"contexts", "comments"})
    THEN Valid([type |-> "report", contexts |-> Get(d, "contexts", <<>>),
                comments |-> Get(d, "comments", "")])
    ELSE Invalid

\* TodoOperation: action is a Literal; content and task_id are Optional
\* with default None.  A field_validator runs on a value that is given and
\* not on the default of a field that is left out, so the checks on content
\* and task_id apply to the operations that carry the field.  A string is
\* the sequence of its characters.
TodoOperation(d) ==
    IF /\ Has(d, "action")
       /\ d.action \in {"add", "complete", "delete", "view_all"}
       /\ Has(d, "content") => ~(d.action = "add" /\ d.content = <<>>)
       /\ Has(d, "task_id") =>
              ~(d.action \in {"complete", "delete"} /\ d.task_id < 1)
    THEN Valid([action |-> d.action,
                content |-> IF Has(d, "content") THEN Some(d.content) ELSE NoneV,
                task_id |-> IF Has(d, "task_id") THEN Some(d.task_id) ELSE NoneV])
    ELSE Invalid

\* operations: List[TodoOperation], min_length=1; view_all: bool = False
BatchTodoAction(d) ==
    IF /\ NoExtra(d, {"operations", "view_all"})
       /\ Has(d, "operations") /\ Len(d.operations) >= 1
       /\ \A i \in 1..Len(d.operations) : TodoOperation(d.operations[i]).ok
    THEN Valid([type |-> "todo",
                operations |-> [i \in 1..Len(d.operations) |->
                                   TodoOperation(d.operations[i]).action],
                view_all |-> Get(d, "view_all", FALSE)])
    ELSE Invalid

---------------------------------------------------------------------------
(* parsing/parser.py: SimpleActionParser.  A reply is the sequence of its  *)
(* top-level tags [name, yaml, data], as _extract_xml_tags returns them.   *)

IGNORED_TAGS == {"think", "reasoning", "plan_md"}
ACTION_MAP == {"bash", "finish", "task_create", "add_context", "launch_subagent",
               "report", "todo"}
FILE_ACTIONS == {"read"}

\* action_class.model_validate(cleaned_data) for the class named cls
ModelValidate(cls, tag, d) ==
    IF tag.yaml # "mapping" THEN Invalid
    ELSE CASE cls = "bash"            -> BashAction(d)
           [] cls = "finish"          -> FinishAction(d)
           [] cls = "task_create"     -> TaskCreateAction(d)
           [] cls = "add_context"     -> AddContextAction(d)
           [] cls = "launch_subagent" -> LaunchSubagentAction(d)
           [] cls = "report"          -> ReportAction(d)
           [] cls = "read"            -> ReadAction(d)
           [] cls = "todo"            -> BatchTodoAction(d)

\* _get_action_class_and_data: the class (None for an unknown tag or an
\* unknown discriminator) and the cleaned data.
GetActionClassAndData(tag) ==
    IF tag.name \in ACTION_MAP
    THEN [cls |-> Some(tag.name), data |-> tag.data]
    ELSE IF tag.name = "file"
    THEN IF tag.yaml = "mapping" /\ Has(tag.data, "action")
            /\ tag.data.action \in FILE_ACTIONS
         THEN [cls |-> Some(tag.data.action),
               data |-> [k \in (DOMAIN tag.data) \ {"action"} |-> tag.data[k]]]
         ELSE [cls |-> NoneV, data |-> tag.data]
    ELSE [cls |-> NoneV, data |-> tag.data]

\* An entry of `errors`: "[<tag>] YAML error: ...", "[<tag>] Validation
\* error: ..." or "Unknown action type: <tag>" (the only one with no "[<tag>]").
ParseError(kind, tag_name) ==
    [kind |-> kind, tag |-> tag_name, bracketed |-> kind # "unknown"]

\* str.lower() on a tag name: the names written with a capital letter, and
\* their lower-case forms; any other name of the model has no capital letter.
LowerCased == [Think |-> "think"]
Lower(name) == IF name \in DOMAIN LowerCased THEN LowerCased[name] ELSE name

\* A parser for which an ignored tag counts as an attempted action; the
\* attempt property must tell it from ParseTag.
ParseTagCountingIgnored(acc, tag) ==
    LET found == [acc EXCEPT !.found_action_attempt = TRUE]
    IN  IF Lower(tag.name) \in IGNORED_TAGS THEN found
        ELSE IF tag.yaml = "error"
             THEN [found EXCEPT !.errors = Append(@, ParseError("yaml", tag.name))]
             ELSE LET cd == GetActionClassAndData(tag)
                  IN  IF IsNone(cd.cls)
                      THEN [found EXCEPT !.errors =
                                Append(@, ParseError("unknown", tag.name))]
                      ELSE LET v == ModelValidate(cd.cls[1], tag, cd.data)
                           IN  IF v.ok
                               THEN [found EXCEPT !.actions = Append(@, v.action)]
                               ELSE [found EXCEPT !.errors =
                                         Append(@, ParseError("validation", tag.name))]

\* The body of the loop of parse_response for one tag: acc is
\* (actions, errors, found_action_attempt).  The ignored set is matched on
\* tag_name.lower(), the action maps on tag_name itself.
ParseTag(acc, tag) ==
    IF Lower(tag.name) \in IGNORED_TAGS THEN acc
    ELSE LET found == [acc EXCEPT !.found_action_attempt = TRUE]
         IN  IF tag.yaml = "error"
             THEN [found EXCEPT !.errors = Append(@, ParseError("yaml", tag.name))]
             ELSE LET cd == GetActionClassAndData(tag)
                  IN  IF IsNone(cd.cls)
                      THEN [found EXCEPT !.errors =
                                Append(@, ParseError("unknown", tag.name))]
                      ELSE LET v == ModelValidate(cd.cls[1], tag, cd.data)
                           IN  IF v.ok
                               THEN [found EXCEPT !.actions = Append(@, v.action)]
                               ELSE [found EXCEPT !.errors =
                                         Append(@, ParseError("validation", tag.name))]

RECURSIVE ParseFrom(_, _, _)
ParseFrom(acc, reply, i) ==
    IF i > Len(reply) THEN acc ELSE ParseFrom(ParseTag(acc, reply[i]), reply, i + 1)

\* A parser that gives up at the first tag whose YAML does not decode; the
\* isolation property must tell it from parse_response.
parse_response_halting(reply) ==
    LET bad  == {i \in 1..Len(reply) : reply[i].yaml = "error"}
        stop == IF bad = {} THEN Len(reply)
                ELSE CHOOSE i \in bad : \A j \in bad : i <= j
    IN  ParseFrom([actions |-> <<>>, errors |-> <<>>, found_action_attempt |-> FALSE],
                  SubSeq(reply, 1, stop), 1)

parse_response(reply) ==
    ParseFrom([actions |-> <<>>, errors |-> <<>>, found_action_attempt |-> FALSE],
              reply, 1)

---------------------------------------------------------------------------
(* utils/llm_client.py: token counting.  A message is its role and its     *)
(* size; the token counter is additive over the messages it is given.      *)

Msg(role, size) == [role |-> role, size |-> size]

RECURSIVE count_tokens_for_messages(_)
count_tokens_for_messages(messages) ==
    IF messages = <<>> THEN 0
    ELSE Head(messages).size + count_tokens_for_messages(Tail(messages))

count_input_tokens(messages) ==
    LET IsInput(m) == m.role \in {"system", "user"}
    IN  count_tokens_for_messages(SelectSeq(messages, IsInput))

count_output_tokens(messages) ==
    LET IsOutput(m) == m.role = "assistant"
    IN  count_tokens_for_messages(SelectSeq(messages, IsOutput))

---------------------------------------------------------------------------
(* A running agent.  kind is "orch" (OrchestratorAgent.run), "sub"         *)
(* (Subagent.run) or "turn" (a bare TurnExecutor.execute).  pc is the      *)
(* place of the agent in its code: "loop" at the head of its turn loop,    *)
(* "exec" in the for loop of TurnExecutor.execute, "wait" inside           *)
(* _handle_launch_subagent at subagent.run(), "result" when execute has    *)
(* returned, "returned" when the agent's run has returned.                 *)

NewAgent(kind, hub_ref, max_turns, messages) ==
    [kind |-> kind,
     hub |-> hub_ref,                \* action_handler.orchestrator_hub
     max_turns |-> max_turns,
     pc |-> "loop",
     phase |-> "turns",              \* Subagent.run: "turns", then "forced"
     turn |-> 0,                     \* turns_executed; turn_num + 1
     messages |-> messages,          \* orchestrator_messages; Subagent.messages
     llm_calls |-> 0,                \* history: calls of get_llm_response
     \* locals of TurnExecutor.execute
     llm_output |-> <<>>,
     actions |-> <<>>,
     cursor |-> 0,
     actions_executed |-> <<>>,
     env_responses |-> <<>>,
     has_error |-> FALSE,
     finish_message |-> NoneV,
     done |-> FALSE,
     handled |-> <<>>,               \* history: the handle_action calls of this execute
     result |-> NoneV,               \* the ExecutionResult
     \* ActionHandler
     trajectories |-> EmptyMap,      \* subagent_trajectories
     pending |-> NoneV,              \* the handler activation waiting for subagent.run()
     todo_manager |-> NewTodoManager,
     \* OrchestratorState, ConversationHistory
     history |-> <<>>,
     state_done |-> FALSE,
     state_finish_message |-> NoneV,
     returned |-> NoneV]             \* the value run() returned

ExecutionResult(actions_executed, env_responses, has_error, finish_message, done, subagent_trajectories) ==
    [actions_executed |-> actions_executed, env_responses |-> env_responses,
     has_error |-> has_error, finish_message |-> finish_message, done |-> done,
     subagent_trajectories |-> subagent_trajectories]

---------------------------------------------------------------------------
(* action_handler.py: ActionHandler.  A handler activation returns          *)
(* [hub, outcome, output, is_error]: outcome is "returned", or "raised"    *)
(* with the exception's message as output.                                 *)

Returned(hub, output, is_error) ==
    [hub |-> hub, outcome |-> "returned", output |-> output, is_error |-> is_error]
Raised(hub, message) ==
    [hub |-> hub, outcome |-> "raised", output |-> message, is_error |-> TRUE]

\* What the environment (the command executor) may do to a tool action.
EnvOutcomes(action) ==
    CASE action.type = "bash" -> {"ok", "error"}
      [] action.type = "read" -> {"ok", "error", "raise"}
      [] OTHER -> {"ok"}

\* _handle_bash: a non-zero exit code, or an exception of the executor
\* (caught here), is an error output.
HandleBash(hub, action, env) ==
    IF action.block
    THEN Returned(hub, format_tool_output("bash", <<"bash output", action.cmd, env>>),
                  env # "ok")
    ELSE Returned(hub, format_tool_output("bash", <<"Command started in background">>),
                  FALSE)

\* _handle_read_file: the executor's exception is not caught here.
HandleReadFile(hub, action, env) ==
    IF env = "raise" THEN Raised(hub, <<"executor failed">>)
    ELSE Returned(hub, format_tool_output("file",
                           <<"file content", action.file_path, env>>),
                  env # "ok")

\* _handle_finish
HandleFinish(hub, action) ==
    Returned(hub, format_tool_output("finish",
                      <<"Task marked as complete", action.message>>), FALSE)

\* _handle_report
HandleReport(hub, action) ==
    Returned(hub, format_tool_output("report", <<"Report submission successful">>),
             FALSE)

\* Subagent.__init__ -> _load_system_message: the constructor raises
\* ValueError for any other agent type.
SubagentAgentTypes == {"explorer", "coder"}

\* _handle_launch_subagent up to subagent.run(): "not_found", "raise" (the
\* Subagent constructor raised) or "run".
LaunchDecision(hub, task_id) ==
    LET task == get_task(hub, task_id)
    IN  IF IsNone(task) THEN "not_found"
        ELSE IF task[1].agent_type \in SubagentAgentTypes THEN "run"
        ELSE "raise"

\* A launch of an unknown task that is answered without an error; the
\* unknown-task property must tell it from LaunchNotFound.
LaunchNotFoundWithoutError(hub, task_id) ==
    Returned(hub, format_tool_output("subagent", <<"[ERROR] Task not found", task_id>>),
             FALSE)

LaunchNotFound(hub, task_id) ==
    Returned(hub, format_tool_output("subagent", <<"[ERROR] Task not found", task_id>>),
             TRUE)

UnknownAgentType == <<"Unknown agent type">>

\* _handle_launch_subagent when it does not run a subagent
HandleLaunchNoRun(hub, action) ==
    IF LaunchDecision(hub, action.task_id) = "not_found"
    THEN LaunchNotFound(hub, action.task_id)
    ELSE Raised(hub, UnknownAgentType)

\* _handle_task_create when it does not run a subagent: the task is created;
\* an exception of the auto-launch is caught and rendered.
HandleTaskCreateNoRun(hub, action) ==
    LET c == create_task(hub, action.agent_type)
    IN  IF ~action.auto_launch
        THEN Returned(c.hub, format_tool_output("task", <<"Created task", c.ret>>),
                      FALSE)
        ELSE Returned(c.hub,
                      format_tool_output("task",
                          <<"[ERROR] Failed to create task", UnknownAgentType>>),
                      TRUE)

\* The task a handler activation for `action` would run a subagent for, if
\* any: LaunchSubagent of a task that exists, TaskCreate with auto_launch.
LaunchTarget(hub, action) ==
    IF action.type = "launch_subagent"
    THEN IF LaunchDecision(hub, action.task_id) = "run"
         THEN Some(action.task_id) ELSE NoneV
    ELSE IF action.type = "task_create" /\ action.auto_launch
            /\ action.agent_type \in SubagentAgentTypes
    THEN Some(create_task(hub, action.agent_type).ret)
    ELSE NoneV

\* handle_action for an activation that runs no subagent.
handle_action(hub, action, env) ==
    CASE action.type = "bash"            -> HandleBash(hub, action, env)
      [] action.type = "read"            -> HandleReadFile(hub, action, env)
      [] action.type = "finish"          -> HandleFinish(hub, action)
      [] action.type = "report"          -> HandleReport(hub, action)
      [] action.type = "add_context"     ->
            LET r == HandleAddContext(hub, action)
            IN  Returned(r.hub, r.output, r.is_error)
      [] action.type = "task_create"     -> HandleTaskCreateNoRun(hub, action)
      [] action.type = "launch_subagent" -> HandleLaunchNoRun(hub, action)

---------------------------------------------------------------------------
(* env_interaction/turn_executor.py: TurnExecutor.execute, on the agent f  *)
(* that called it.                                                         *)

ParseErrorResponse(error) == EnvResponse("parse_error", "", <<error>>)
NoActionsResponse == EnvResponse("no_actions", "", <<"No actions were attempted.">>)
ExceptionResponse(message) == EnvResponse("exception", "", message)

\* An execute that treats a reply without action tags as an ordinary turn
\* with nothing to run; the no-action property must tell it from BeginExecute.
BeginExecuteNotTerminal(f, reply) ==
    LET p    == parse_response(reply)
        errs == [i \in 1..Len(p.errors) |-> ParseErrorResponse(p.errors[i])]
        g    == [f EXCEPT !.llm_output = reply, !.handled = <<>>]
    IN  IF p.actions = <<>>
        THEN [g EXCEPT !.pc = "result",
                       !.result = Some(ExecutionResult(<<>>, errs, p.errors # <<>>,
                                                       NoneV, FALSE, NoneV))]
        ELSE [g EXCEPT !.pc = "exec",
                       !.actions = p.actions,
                       !.cursor = 1,
                       !.actions_executed = <<>>,
                       !.env_responses = errs,
                       !.has_error = (p.errors # <<>>),
                       !.finish_message = NoneV,
                       !.done = FALSE]

\* execute, from the call of the parser to the head of the for loop; the two
\* early returns leave the result at once.
BeginExecute(f, reply) ==
    LET p    == parse_response(reply)
        errs == [i \in 1..Len(p.errors) |-> ParseErrorResponse(p.errors[i])]
        g    == [f EXCEPT !.llm_output = reply, !.handled = <<>>]
    IN  IF ~p.found_action_attempt
        THEN [g EXCEPT !.pc = "result",
                       !.result = Some(ExecutionResult(<<>>, <<NoActionsResponse>>,
                                                       TRUE, NoneV, TRUE, NoneV))]
        ELSE IF p.errors # <<>> /\ p.actions = <<>>
        THEN [g EXCEPT !.pc = "result",
                       !.result = Some(ExecutionResult(<<>>, errs, TRUE, NoneV,
                                                       FALSE, NoneV))]
        ELSE [g EXCEPT !.pc = "exec",
                       !.actions = p.actions,
                       !.cursor = 1,
                       !.actions_executed = <<>>,
                       !.env_responses = errs,
                       !.has_error = (p.errors # <<>>),
                       !.finish_message = NoneV,
                       !.done = FALSE]

\* A loop that goes on after a Finish; the Finish property must tell it from
\* EndOfLoop.
EndOfLoopWithoutBreak(f) ==
    IF f.cursor > Len(f.actions)
    THEN [f EXCEPT !.pc = "result",
                   !.result = Some(ExecutionResult(
                                  f.actions_executed, f.env_responses, f.has_error,
                                  f.finish_message, f.done, NoneV)),
                   !.trajectories = EmptyMap]
    ELSE f

\* The end of the for loop (the list is exhausted, or the break after a
\* Finish): get_and_clear_subagent_trajectories and the returned result.
EndOfLoop(f) ==
    IF f.done \/ f.cursor > Len(f.actions)
    THEN [f EXCEPT !.pc = "result",
                   !.result = Some(ExecutionResult(
                                  f.actions_executed, f.env_responses, f.has_error,
                                  f.finish_message, f.done,
                                  IF DOMAIN f.trajectories = {} THEN NoneV
                                  ELSE Some(f.trajectories))),
                   !.trajectories = EmptyMap]
    ELSE f

\* A loop body that drops the response of a handler that raised; the
\* alignment property must tell it from AfterHandler.
AfterHandlerSilentOnException(f, action, r) ==
    LET g == IF r.outcome = "returned"
             THEN [f EXCEPT !.actions_executed = Append(@, action),
                            !.has_error = @ \/ r.is_error,
                            !.env_responses = Append(@, r.output),
                            !.finish_message = IF action.type = "finish"
                                               THEN Some(action.message) ELSE @,
                            !.done = (action.type = "finish")]
             ELSE [f EXCEPT !.has_error = TRUE]
    IN  EndOfLoop([g EXCEPT !.cursor = @ + 1,
                            !.handled = Append(@, [action |-> action,
                                                   outcome |-> r.outcome,
                                                   output |-> r.output])])

\* A loop body that gives up the turn when a handler raises; the
\* continuation property must tell it from AfterHandler.
AfterHandlerAbortingOnException(f, action, r) ==
    LET g == IF r.outcome = "returned"
             THEN [f EXCEPT !.actions_executed = Append(@, action),
                            !.has_error = @ \/ r.is_error,
                            !.env_responses = Append(@, r.output),
                            !.finish_message = IF action.type = "finish"
                                               THEN Some(action.message) ELSE @,
                            !.done = (action.type = "finish")]
             ELSE [f EXCEPT !.env_responses = Append(@, ExceptionResponse(r.output)),
                            !.has_error = TRUE,
                            !.cursor = Len(f.actions)]
    IN  EndOfLoop([g EXCEPT !.cursor = @ + 1,
                            !.handled = Append(@, [action |-> action,
                                                   outcome |-> r.outcome,
                                                   output |-> r.output])])

\* The body of the for loop once the handler activation r of `action` ended.
AfterHandler(f, action, r) ==
    LET g == IF r.outcome = "returned"
             THEN [f EXCEPT !.actions_executed = Append(@, action),
                            !.has_error = @ \/ r.is_error,
                            !.env_responses = Append(@, r.output),
                            !.finish_message = IF action.type = "finish"
                                               THEN Some(action.message) ELSE @,
                            !.done = (action.type = "finish")]
             ELSE [f EXCEPT !.env_responses = Append(@, ExceptionResponse(r.output)),
                            !.has_error = TRUE]
    IN  EndOfLoop([g EXCEPT !.cursor = @ + 1,
                            !.handled = Append(@, [action |-> action,
                                                   outcome |-> r.outcome,
                                                   output |-> r.output])])

\* The locals of execute die when its caller has used the result.
ClearExecute(f) ==
    [f EXCEPT !.llm_output = <<>>, !.actions = <<>>, !.cursor = 0,
              !.actions_executed = <<>>, !.env_responses = <<>>,
              !.has_error = FALSE, !.finish_message = NoneV, !.done = FALSE,
              !.handled = <<>>, !.result = NoneV]

---------------------------------------------------------------------------
(* action_handler.py: _handle_launch_subagent and Subagent.__init__.       *)

\* A subagent handed the hub of the handler that launched it; the isolation
\* property must tell it from SubagentHubArg.
SharedHubArg(parent_ref) == Some(parent_ref)

\* subagent.py: ActionHandler(..., orchestrator_hub=None): the hub argument
\* a subagent's handler is built with, given the launching handler's hub.
SubagentHubArg(parent_ref) == NoneV

\* ActionHandler.__init__: self.orchestrator_hub = orchestrator_hub or OrchestratorHub()
HandlerHubRef(arg, heap) == IF IsNone(arg) THEN Len(heap) + 1 ELSE arg[1]
HandlerHeap(arg, heap) == IF IsNone(arg) THEN Append(heap, NewHub) ELSE heap

\* Subagent.run, its first statement: [system, user(task prompt)]
InitialMessages == <<Msg("system", 1), Msg("user", 1)>>

\* A launch handler that returns to the loop of execute without handing the
\* report to the hub; the synchrony property must tell it from FinishLaunch.
FinishLaunchUnprocessed(parent, hub, report, now) ==
    LET p      == parent.pending[1]
        action == parent.actions[parent.cursor]
        output == format_tool_output("subagent",
                      <<"Subagent completed task", p.task_id, <<>>, report.comments>>)
    IN  [agent |-> AfterHandler([parent EXCEPT !.pc = "exec", !.pending = NoneV],
                                action, Returned(hub, output, FALSE)),
         hub |-> hub]

\* The rest of _handle_launch_subagent once subagent.run() returned `report`
\* to the activation parent.pending of the agent `parent`: the trajectory
\* entry, process_subagent_result, the rendered response; then on with the
\* for loop of execute.  Returns the agent and its hub.
FinishLaunch(parent, hub, report, now) ==
    LET p      == parent.pending[1]
        action == parent.actions[parent.cursor]
        traj   == IF ~IsNone(report.meta)
                  THEN Put(parent.trajectories, p.task_id,
                           [total_input_tokens |-> report.meta[1].total_input_tokens,
                            total_output_tokens |-> report.meta[1].total_output_tokens])
                  ELSE parent.trajectories
        r      == process_subagent_result(hub, p.task_id, report, now)
        launch == format_tool_output("subagent",
                      <<"Subagent completed task", p.task_id,
                        r.ret.context_ids_stored, r.ret.comments>>)
        output == IF p.via_create
                  THEN format_tool_output("task", <<"Created task", p.task_id, launch>>)
                  ELSE launch
    IN  [agent |-> AfterHandler([parent EXCEPT !.pc = "exec", !.pending = NoneV,
                                               !.trajectories = traj],
                                action, Returned(r.hub, output, FALSE)),
         hub |-> r.hub]

---------------------------------------------------------------------------
(* subagent.py: Subagent.                                                  *)

SubagentMeta(trajectory, num_turns, total_input_tokens, total_output_tokens) ==
    [trajectory |-> trajectory, num_turns |-> num_turns,
     total_input_tokens |-> total_input_tokens,
     total_output_tokens |-> total_output_tokens]

SubagentReport(contexts, comments, meta) ==
    [contexts |-> contexts, comments |-> comments, meta |-> meta]

\* ContextItem(id=ctx["id"], content=ctx["content"]) raises KeyError on a
\* dict without one of the keys.
WellFormedContexts(contexts) ==
    \A i \in 1..Len(contexts) : Has(contexts[i], "id") /\ Has(contexts[i], "content")

\* _check_for_report on the actions from index i: "none", "raise" or the
\* report made of the first ReportAction.
RECURSIVE CheckForReportFrom(_, _, _)
CheckForReportFrom(actions, messages, i) ==
    IF i > Len(actions) THEN [kind |-> "none"]
    ELSE IF actions[i].type = "report"
    THEN IF WellFormedContexts(actions[i].contexts)
         THEN [kind |-> "report",
               report |-> SubagentReport(
                   [k \in 1..Len(actions[i].contexts) |->
                       [id |-> actions[i].contexts[k].id,
                        content |-> actions[i].contexts[k].content]],
                   actions[i].comments,
                   Some(SubagentMeta(messages, NoneV, 0, 0)))]
         ELSE [kind |-> "raise"]
    ELSE CheckForReportFrom(actions, messages, i + 1)

check_for_report(actions, messages) == CheckForReportFrom(actions, messages, 1)

\* report.meta.num_turns = ...; total_input_tokens = ...; total_output_tokens = ...
WithMeta(report, num_turns, messages) ==
    [report EXCEPT !.meta = Some([report.meta[1] EXCEPT
        !.num_turns = Some(num_turns),
        !.total_input_tokens = count_input_tokens(messages),
        !.total_output_tokens = count_output_tokens(messages)])]

FallbackComments == "Task incomplete - reached maximum turns"

\* The fallback report at the end of run
FallbackReport(f) ==
    SubagentReport(<<>>, FallbackComments,
        Some(SubagentMeta(f.messages, Some(f.max_turns),
                          count_input_tokens(f.messages),
                          count_output_tokens(f.messages))))

Return(f, value) == [f EXCEPT !.pc = "returned", !.returned = Some(value)]

\* A turn that is not counted when the LLM call raises; the termination
\* property must tell it from SubagentTurnRaises.
SubagentTurnRaisesUncounted(f) ==
    [f EXCEPT !.llm_calls = @ + 1, !.messages = Append(@, Msg("user", 1))]

\* One iteration of the for loop of run whose LLM call raises: the except
\* clause adds the error as a user message.
SubagentTurnRaises(f) ==
    [f EXCEPT !.turn = @ + 1, !.llm_calls = @ + 1,
              !.messages = Append(@, Msg("user", 1))]

\* One iteration of the for loop of run, to the call of execute.
SubagentTurnBegins(f, reply) ==
    BeginExecute([f EXCEPT !.turn = @ + 1, !.llm_calls = @ + 1,
                           !.messages = Append(@, Msg("assistant", 1))],
                 reply)

\* The iteration after execute returned: the environment response, then the
\* check for a report.
SubagentTurnEnds(f) ==
    LET result   == f.result[1]
        messages == Append(f.messages, Msg("user", 1))
        c        == check_for_report(result.actions_executed, messages)
        g        == ClearExecute([f EXCEPT !.messages = messages, !.pc = "loop"])
    IN  CASE c.kind = "report" -> Return(g, WithMeta(c.report, f.turn, messages))
          [] c.kind = "raise"  -> [g EXCEPT !.messages = Append(@, Msg("user", 1))]
          [] c.kind = "none"   -> g

\* "Append the force report message to the last user message"
WithForceReportMsg(messages) ==
    IF messages # <<>> /\ messages[Len(messages)].role = "user"
    THEN [messages EXCEPT ![Len(messages)].size = @ + 1]
    ELSE Append(messages, Msg("user", 1))

\* After the loop: the forced call raises, and the fallback report is returned.
SubagentForceRaises(f) ==
    LET g == [f EXCEPT !.messages = WithForceReportMsg(@), !.llm_calls = @ + 1,
                       !.phase = "forced"]
    IN  Return(g, FallbackReport(g))

\* After the loop: the forced call, to the call of execute.
SubagentForceBegins(f, reply) ==
    BeginExecute([f EXCEPT !.messages = Append(WithForceReportMsg(@),
                                               Msg("assistant", 1)),
                           !.llm_calls = @ + 1, !.phase = "forced"],
                 reply)

\* After the forced execute: the report of the reply, or the fallback report.
SubagentForceEnds(f) ==
    LET result == f.result[1]
        c      == check_for_report(result.actions_executed, f.messages)
    IN  IF c.kind = "report"
        THEN Return(f, WithMeta(c.report, f.max_turns + 1, f.messages))
        ELSE Return(f, FallbackReport(f))

---------------------------------------------------------------------------
(* orchestrator_agent.py: OrchestratorAgent; conversation_history.py.      *)

HistoryMaxTurns == 100

\* A history that drops the newest turns once it is full; the cap property
\* must tell it from add_turn.
add_turn_keeping_oldest(history, turn) ==
    LET turns == Append(history, turn)
    IN  IF Len(turns) > HistoryMaxTurns
        THEN SubSeq(turns, 1, HistoryMaxTurns)
        ELSE turns

\* ConversationHistory.add_turn
add_turn(history, turn) ==
    LET turns == Append(history, turn)
    IN  IF Len(turns) > HistoryMaxTurns
        THEN SubSeq(turns, Len(turns) - HistoryMaxTurns + 1, Len(turns))
        ELSE turns

Turn(llm_output, result) ==
    [llm_output |-> llm_output,
     actions_executed |-> result.actions_executed,
     env_responses |-> result.env_responses,
     subagent_trajectories |-> result.subagent_trajectories]

\* _get_llm_response, to the call of the LLM: the system message once, then
\* the user message.
TrackUserMessage(messages) ==
    Append(IF messages = <<>> THEN <<Msg("system", 1)>> ELSE messages,
           Msg("user", 1))

\* An iteration whose LLM call raises and that ends the run; the resilience
\* property must tell it from OrchestratorTurnRaises.
OrchestratorTurnRaisesAborting(f) ==
    [f EXCEPT !.turn = @ + 1, !.llm_calls = @ + 1,
              !.messages = TrackUserMessage(@), !.state_done = TRUE]

\* One iteration of the while loop of run whose LLM call raises.
OrchestratorTurnRaises(f) ==
    [f EXCEPT !.turn = @ + 1, !.llm_calls = @ + 1,
              !.messages = TrackUserMessage(@)]

\* One iteration of the while loop of run, to the call of execute.
OrchestratorTurnBegins(f, reply) ==
    BeginExecute([f EXCEPT !.turn = @ + 1, !.llm_calls = @ + 1,
                           !.messages = Append(TrackUserMessage(@),
                                               Msg("assistant", 1))],
                 reply)

\* A turn that does not record that its result was done; the termination
\* property must tell it from OrchestratorTurnEnds.
OrchestratorTurnEndsForgettingDone(f) ==
    LET result == f.result[1]
    IN  ClearExecute([f EXCEPT !.history = add_turn(@, Turn(f.llm_output, result)), !.pc = "loop"])

\* A turn that records that its result was done but not its finish message;
\* the completion property must tell it from OrchestratorTurnEnds.
OrchestratorTurnEndsDroppingMessage(f) ==
    LET result == f.result[1]
    IN  ClearExecute([f EXCEPT
            !.history = add_turn(@, Turn(f.llm_output, result)),
            !.state_done = IF result.done THEN TRUE ELSE @,
            !.pc = "loop"])

\* execute_turn after execute returned: the turn is added to the history
\* and the done state is updated.
OrchestratorTurnEnds(f) ==
    LET result == f.result[1]
    IN  ClearExecute([f EXCEPT
            !.history = add_turn(@, Turn(f.llm_output, result)),
            !.state_done = IF result.done THEN TRUE ELSE @,
            !.state_finish_message = IF result.done THEN result.finish_message
                                     ELSE @,
            !.pc = "loop"])

\* perform_task: the sum of one token field over the subagent trajectories
\* of the turns history[i..].
RECURSIVE SumTrajectories(_, _, _)
SumTrajectories(history, field, i) ==
    IF i > Len(history) THEN 0
    ELSE LET t == history[i].subagent_trajectories
             RECURSIVE SumOver(_)
             SumOver(keys) ==
                 IF keys = {} THEN 0
                 ELSE LET k == CHOOSE x \in keys : TRUE
                      IN  t[1][k][field] + SumOver(keys \ {k})
         IN  (IF IsNone(t) THEN 0 ELSE SumOver(DOMAIN t[1]))
             + SumTrajectories(history, field, i + 1)

\* A summary that reports the cap only for a run that did not finish; the
\* summary property must tell it from RunSummary.
RunSummaryCapOnlyIfUnfinished(f) ==
    [completed |-> f.state_done,
     finish_message |-> f.state_finish_message,
     turns_executed |-> f.turn,
     max_turns_reached |-> (f.turn >= f.max_turns /\ ~f.state_done),
     total_input_tokens |-> SumTrajectories(f.history, "total_input_tokens", 1)
                            + count_input_tokens(f.messages),
     total_output_tokens |-> SumTrajectories(f.history, "total_output_tokens", 1)
                             + count_output_tokens(f.messages)]

\* run's summary, with the totals perform_task adds to it.
RunSummary(f) ==
    [completed |-> f.state_done,
     finish_message |-> f.state_finish_message,
     turns_executed |-> f.turn,
     max_turns_reached |-> f.turn >= f.max_turns,
     total_input_tokens |-> SumTrajectories(f.history, "total_input_tokens", 1)
                            + count_input_tokens(f.messages),
     total_output_tokens |-> SumTrajectories(f.history, "total_output_tokens", 1)
                             + count_output_tokens(f.messages)]

---------------------------------------------------------------------------
(* The replies of the LLM.                                                 *)

Tag(name, yaml, data) == [name |-> name, yaml |-> yaml, data |-> data]

T_bash == Tag("bash", "mapping", [cmd |-> "ls"])
T_finish == Tag("finish", "mapping", [message |-> "all done"])
T_finish_default == Tag("finish", "mapping", EmptyMap)
T_read == Tag("file", "mapping", [action |-> "read", file_path |-> "a.py"])
T_file_unknown == Tag("file", "mapping", [action |-> "bogus", file_path |-> "a.py"])
T_think == Tag("think", "scalar", EmptyMap)
T_Think == Tag("Think", "scalar", EmptyMap)
T_unknown == Tag("shell", "mapping", [cmd |-> "ls"])
T_yaml_error == Tag("bash", "error", EmptyMap)
T_invalid == Tag("bash", "mapping", [command |-> "ls"])
T_add_context == Tag("add_context", "mapping", [id |-> "c1", content |-> "v1"])
T_task_create(agent_type, auto_launch) ==
    Tag("task_create", "mapping",
        [agent_type |-> agent_type, title |-> "t", description |-> "d",
         auto_launch |-> auto_launch])
T_launch(n) == Tag("launch_subagent", "mapping", [task_id |-> TaskId(n)])
T_report(contexts) ==
    Tag("report", "mapping", [contexts |-> contexts, comments |-> "findings"])

C_good == [id |-> "c1", content |-> "v1"]
C_other == [id |-> "c2", content |-> "v2"]
C_malformed == [id |-> "c1"]

SeqsUpTo(S, n) == UNION {[1..k -> S] : k \in 0..n}

\* A bare execute is given any reply of at most MaxReplyLen tags.
ExecTags ==
    {T_bash, T_finish, T_finish_default, T_read, T_file_unknown, T_think,
     T_Think, T_unknown, T_yaml_error, T_invalid, T_add_context,
     T_task_create("exploratory", TRUE)}
ExecReplies == SeqsUpTo(ExecTags, MaxReplyLen)

\* The replies given to a subagent that a handler launched: they launch no
\* subagent of their own (the task they create is of a type no subagent can
\* be built for, the task they launch is not in their hub).
LeafReplies ==
    {<<T_report(<<C_good>>)>>,
     <<T_add_context, T_report(<<C_other>>)>>,
     <<T_task_create("exploratory", TRUE), T_launch(1)>>}

\* The replies given to a subagent that is run directly.
SubagentReplies ==
    LeafReplies \cup {<<T_report(<<C_malformed>>)>>,
                      <<T_finish, T_report(<<C_good>>)>>,
                      <<T_task_create("coder", TRUE)>>,
                      <<T_bash>>,
                      <<T_think>>}

OrchestratorReplies ==
    {<<T_task_create("coder", TRUE)>>,
     <<T_task_create("coder", TRUE), T_launch(1)>>,
     <<T_task_create("coder", FALSE)>>,
     <<T_task_create("exploratory", TRUE), T_task_create("coder", TRUE)>>,
     <<T_add_context, T_launch(1)>>,
     <<T_task_create("explorer", TRUE)>>,
     <<T_task_create("exploratory", TRUE)>>,
     <<T_bash, T_finish>>}

\* The replies the LLM may give the agent f with `depth` agents on the stack.
Replies(f, depth) ==
    CASE f.kind = "orch" -> OrchestratorReplies
      [] f.kind = "sub"  -> IF depth = 1 THEN SubagentReplies ELSE LeafReplies
      [] f.kind = "turn" -> ExecReplies

\* The LLM call returns a reply, or raises.
LLMOutcomes(f, depth) ==
    {[raises |-> FALSE, reply |-> r] : r \in Replies(f, depth)}
        \cup {[raises |-> TRUE, reply |-> <<>>]}

---------------------------------------------------------------------------
(* The steps of a run.  The agent on top of the stack is the one running;  *)
(* the agents below it wait in _handle_launch_subagent for its report.     *)

Top == stack[Len(stack)]
Running(kind, pc) == stack # <<>> /\ Top.kind = kind /\ Top.pc = pc
SetTop(f) == [stack EXCEPT ![Len(stack)] = f]
NoTokens == [total_input_tokens |-> 0, total_output_tokens |-> 0]

\* OrchestratorAgent.run: one turn, from the loop test to the call of
\* execute (or to the except clause, when the LLM call raises).
OrchestratorTurnOn(outcomes) ==
    /\ Running("orch", "loop")
    /\ ~Top.state_done /\ Top.turn < Top.max_turns
    /\ \E o \in outcomes :
           stack' = SetTop(IF o.raises THEN OrchestratorTurnRaises(Top)
                           ELSE OrchestratorTurnBegins(Top, o.reply))
    /\ UNCHANGED <<hubs, clock, call, psrInvoked, harvest>>

OrchestratorTurn == OrchestratorTurnOn(LLMOutcomes(Top, Len(stack)))

\* execute_turn: what follows execute.
OrchestratorTurnEnd ==
    /\ Running("orch", "result")
    /\ stack' = SetTop(OrchestratorTurnEnds(Top))
    /\ UNCHANGED <<hubs, clock, call, psrInvoked, harvest>>

\* run leaves its loop and returns; perform_task adds up the tokens.
OrchestratorReturn ==
    /\ Running("orch", "loop")
    /\ Top.state_done \/ Top.turn >= Top.max_turns
    /\ stack' = SetTop(Return(Top, RunSummary(Top)))
    /\ UNCHANGED <<hubs, clock, call, psrInvoked, harvest>>

\* Subagent.run: one turn of the for loop.
SubagentTurn ==
    /\ Running("sub", "loop")
    /\ Top.phase = "turns" /\ Top.turn < Top.max_turns
    /\ \E o \in LLMOutcomes(Top, Len(stack)) :
           stack' = SetTop(IF o.raises THEN SubagentTurnRaises(Top)
                           ELSE SubagentTurnBegins(Top, o.reply))
    /\ UNCHANGED <<hubs, clock, call, psrInvoked, harvest>>

SubagentTurnEnd ==
    /\ Running("sub", "result")
    /\ Top.phase = "turns"
    /\ stack' = SetTop(SubagentTurnEnds(Top))
    /\ UNCHANGED <<hubs, clock, call, psrInvoked, harvest>>

\* Subagent.run after the for loop: the forced report.
SubagentForce ==
    /\ Running("sub", "loop")
    /\ Top.phase = "turns" /\ Top.turn >= Top.max_turns
    /\ \E o \in LLMOutcomes(Top, Len(stack)) :
           stack' = SetTop(IF o.raises THEN SubagentForceRaises(Top)
                           ELSE SubagentForceBegins(Top, o.reply))
    /\ UNCHANGED <<hubs, clock, call, psrInvoked, harvest>>

SubagentForceEnd ==
    /\ Running("sub", "result")
    /\ Top.phase = "forced"
    /\ stack' = SetTop(SubagentForceEnds(Top))
    /\ UNCHANGED <<hubs, clock, call, psrInvoked, harvest>>

\* TurnExecutor.execute called on its own with a reply.
TurnExecute ==
    /\ Running("turn", "loop")
    /\ \E reply \in Replies(Top, Len(stack)) :
           stack' = SetTop(BeginExecute(Top, reply))
    /\ UNCHANGED <<hubs, clock, call, psrInvoked, harvest>>

\* The for loop of execute: handle_action on the next action, when the
\* handler runs no subagent.
ExecuteAction ==
    /\ stack # <<>> /\ Top.pc = "exec"
    /\ LET f      == Top
           action == f.actions[f.cursor]
       IN  /\ IsNone(LaunchTarget(hubs[f.hub], action))
           /\ \E env \in EnvOutcomes(action) :
                  LET r == handle_action(hubs[f.hub], action, env)
                  IN  /\ stack' = SetTop(AfterHandler(f, action, r))
                      /\ hubs' = [hubs EXCEPT ![f.hub] = r.hub]
    /\ UNCHANGED <<clock, call, psrInvoked, harvest>>

\* The for loop of execute: handle_action on an action whose handler builds
\* a Subagent and calls its run().
LaunchSubagent ==
    /\ stack # <<>> /\ Top.pc = "exec"
    /\ LET f      == Top
           action == f.actions[f.cursor]
           hub    == hubs[f.hub]
           target == LaunchTarget(hub, action)
           create == action.type = "task_create"
           heap   == [hubs EXCEPT ![f.hub] =
                         IF create THEN create_task(hub, action.agent_type).hub
                         ELSE hub]
           arg    == SubagentHubArg(f.hub)
       IN  /\ ~IsNone(target)
           /\ hubs' = HandlerHeap(arg, heap)
           /\ stack' = Append(
                  SetTop([f EXCEPT !.pc = "wait",
                                   !.pending = Some([task_id |-> target[1],
                                                     via_create |-> create])]),
                  NewAgent("sub", HandlerHubRef(arg, heap), LaunchedMaxTurns,
                           InitialMessages))
    /\ UNCHANGED <<clock, call, psrInvoked, harvest>>

\* subagent.run() returns its report to _handle_launch_subagent, which
\* stores the trajectory, processes the result and returns to execute.
SubagentReturn ==
    /\ Len(stack) >= 2 /\ Top.pc = "returned"
    /\ LET d      == Len(stack)
           parent == stack[d - 1]
           report == Top.returned[1]
           r      == FinishLaunch(parent, hubs[parent.hub], report, clock)
           heap   == [hubs EXCEPT ![parent.hub] = r.hub]
           live   == {stack[i].hub : i \in 1..(d - 1)}
           root   == d - 1 = 1
           meta   == IF IsNone(report.meta) THEN NoTokens ELSE report.meta[1]
       IN  /\ stack' = [SubSeq(stack, 1, d - 1) EXCEPT ![d - 1] = r.agent]
           /\ hubs' = SubSeq(heap, 1, CHOOSE n \in live : \A m \in live : m <= n)
           /\ psrInvoked' = IF root THEN psrInvoked \cup {parent.pending[1].task_id}
                            ELSE psrInvoked
           /\ harvest' = IF root
                         THEN [total_input_tokens |->
                                   harvest.total_input_tokens + meta.total_input_tokens,
                               total_output_tokens |->
                                   harvest.total_output_tokens + meta.total_output_tokens]
                         ELSE harvest
    /\ clock' = clock + 1
    /\ UNCHANGED call

---------------------------------------------------------------------------
(* The specifications.                                                     *)

NoCall == [op |-> "none", args |-> <<>>, ret |-> NoneV]

InitWith(agents) ==
    /\ hubs = <<NewHub>>
    /\ stack \in agents
    /\ clock = 0
    /\ call = NoCall
    /\ psrInvoked = {}
    /\ harvest = NoTokens

\* An orchestrator run (perform_task) with its subagents.
Init ==
    InitWith({<<NewAgent("orch", 1, n, <<>>)>> : n \in 0..MaxOrchTurns})

Next ==
    \/ OrchestratorTurn
    \/ OrchestratorTurnEnd
    \/ OrchestratorReturn
    \/ ExecuteAction
    \/ LaunchSubagent
    \/ SubagentTurn
    \/ SubagentTurnEnd
    \/ SubagentForce
    \/ SubagentForceEnd
    \/ SubagentReturn

Spec == Init /\ [][Next]_vars

---------------------------------------------------------------------------
(* OrchestratorAgent.run followed from its call to its return, under an    *)
(* LLM that finishes, works on, says nothing to do, delegates, or fails.   *)

RunReplies ==
    {<<T_finish>>, <<T_bash>>, <<T_think>>, <<T_task_create("coder", TRUE)>>}

RunOutcomes ==
    {[raises |-> FALSE, reply |-> r] : r \in RunReplies}
        \cup {[raises |-> TRUE, reply |-> <<>>]}

RunTurn == OrchestratorTurnOn(RunOutcomes)

InitRun ==
    InitWith({<<NewAgent("orch", 1, n, <<>>)>> : n \in 0..MaxRunTurns})

NextRun ==
    \/ RunTurn
    \/ OrchestratorTurnEnd
    \/ OrchestratorReturn
    \/ ExecuteAction
    \/ LaunchSubagent
    \/ SubagentTurn
    \/ SubagentTurnEnd
    \/ SubagentForce
    \/ SubagentForceEnd
    \/ SubagentReturn

SpecRun == InitRun /\ [][NextRun]_vars

\* The running agent always takes its next step.
FairRun == SpecRun /\ WF_vars(NextRun)

---------------------------------------------------------------------------
(* A Subagent constructed and run directly, and the subagents it launches. *)

InitSub ==
    InitWith({<<NewAgent("sub", 1, n, InitialMessages)>> : n \in 0..MaxSubTurns})

NextSub ==
    \/ SubagentTurn
    \/ SubagentTurnEnd
    \/ SubagentForce
    \/ SubagentForceEnd
    \/ ExecuteAction
    \/ LaunchSubagent
    \/ SubagentReturn

SpecSub == InitSub /\ [][NextSub]_vars

\* The running agent always takes its next step.
FairSub == SpecSub /\ WF_vars(NextSub)

---------------------------------------------------------------------------
(* One call of TurnExecutor.execute on a fresh executor.                   *)

InitExec == InitWith({<<NewAgent("turn", 1, 0, <<>>)>>})

NextExec ==
    \/ TurnExecute
    \/ ExecuteAction

SpecExec == InitExec /\ [][NextExec]_vars

---------------------------------------------------------------------------
(* The API of one OrchestratorHub, called in any order.                    *)

TaskStatus == {"created", "completed", "failed"}
ContextIds == {"c1", "c2"}
Contents == {"v1", "v2"}
Reporters == {<<"orchestrator">>}
TaskIds == {TaskId(n) : n \in 1..MaxTasks}
\* The reports handed to the hub: one item; two new ids; an id repeated in
\* the report; an item with no content, then its id again; an item with no id.
HubReports ==
    {SubagentReport(c, "findings", NoneV) :
        c \in {<<C_good>>,
               <<C_good, C_other>>,
               <<C_good, [id |-> "c1", content |-> "v2"]>>,
               <<[id |-> "c2", content |-> ""], C_other>>,
               <<[id |-> "", content |-> "v1"], C_good>>}}

Called(op, args, ret) == [op |-> op, args |-> args, ret |-> Some(ret)]

HubCreateTask ==
    /\ stack = <<>>
    /\ hubs[1].task_counter < MaxTasks
    /\ \E agent_type \in {"explorer", "coder"} :
           LET r == create_task(hubs[1], agent_type)
           IN  /\ hubs' = [hubs EXCEPT ![1] = r.hub]
               /\ call' = Called("create_task", <<agent_type>>, r.ret)
    /\ UNCHANGED <<stack, clock, psrInvoked, harvest>>

HubUpdateTaskStatus ==
    /\ stack = <<>>
    /\ clock < MaxClock
    /\ \E task_id \in TaskIds, status \in TaskStatus :
           LET r == update_task_status(hubs[1], task_id, status, clock)
           IN  /\ hubs' = [hubs EXCEPT ![1] = r.hub]
               /\ call' = Called("update_task_status", <<task_id, status>>, r.ret)
    /\ clock' = clock + 1
    /\ UNCHANGED <<stack, psrInvoked, harvest>>

HubAddContext ==
    /\ stack = <<>>
    /\ \E id \in ContextIds, content \in Contents, reported_by \in Reporters :
           LET r == add_context(hubs[1], id, content, reported_by, NoneV)
           IN  /\ hubs' = [hubs EXCEPT ![1] = r.hub]
               /\ call' = Called("add_context", <<id, content>>, r.ret)
    /\ UNCHANGED <<stack, clock, psrInvoked, harvest>>

\* ActionHandler._handle_add_context on a parsed <add_context> tag
HubHandleAddContext ==
    /\ stack = <<>>
    /\ \E id \in ContextIds, content \in Contents :
           LET v == AddContextAction([id |-> id, content |-> content])
               r == HandleAddContext(hubs[1], v.action)
           IN  /\ hubs' = [hubs EXCEPT ![1] = r.hub]
               /\ call' = Called("handle_add_context", <<id, content>>,
                                 [output |-> r.output, is_error |-> r.is_error])
    /\ UNCHANGED <<stack, clock, psrInvoked, harvest>>

HubProcessSubagentResult ==
    /\ stack = <<>>
    /\ clock < MaxClock
    /\ \E task_id \in TaskIds, report \in HubReports :
           LET r == process_subagent_result(hubs[1], task_id, report, clock)
           IN  /\ hubs' = [hubs EXCEPT ![1] = r.hub]
               /\ call' = Called("process_subagent_result", <<task_id, report>>, r.ret)
               /\ psrInvoked' = psrInvoked \cup {task_id}
    /\ clock' = clock + 1
    /\ UNCHANGED <<stack, harvest>>

InitHub == InitWith({<<>>})

NextHub ==
    \/ HubCreateTask
    \/ HubUpdateTaskStatus
    \/ HubAddContext
    \/ HubHandleAddContext
    \/ HubProcessSubagentResult

SpecHub == InitHub /\ [][NextHub]_vars

---------------------------------------------------------------------------
(* One ConversationHistory, add_turn called on it again and again.  The    *)
(* history is that of a holder that does nothing else; its turn counter    *)
(* counts the calls, and the k-th turn added carries k as its llm_output.  *)

\* The k-th turn added: a turn in which no action was attempted.
NthTurn(k) ==
    Turn(k, ExecutionResult(<<>>, <<NoActionsResponse>>, TRUE, NoneV, TRUE, NoneV))

HistoryAddTurn ==
    /\ Running("history", "loop")
    /\ Top.turn < MaxAdded
    /\ stack' = SetTop([Top EXCEPT !.turn = @ + 1,
                                   !.history = add_turn(@, NthTurn(Top.turn + 1))])
    /\ call' = Called("add_turn", <<Top.turn + 1>>, NoneV)
    /\ UNCHANGED <<hubs, clock, psrInvoked, harvest>>

InitHistory == InitWith({<<NewAgent("history", 1, 0, <<>>)>>})

NextHistory == HistoryAddTurn

SpecHistory == InitHistory /\ [][NextHistory]_vars

---------------------------------------------------------------------------
(* utils/llm_client.py: one call of get_llm_response with the default      *)
(* max_retries.  The call is an agent of kind "llm": turn is the loop      *)
(* variable `attempt`, llm_calls counts the calls of litellm.completion,   *)
(* handled lists what they did, and `call` holds the last time.sleep.      *)

DefaultMaxRetries == 10

\* What litellm.completion may do: return a response, raise
\* InternalServerError with or without "overloaded_error" in its text, or
\* raise any other exception.
CompletionOutcomes ==
    {[kind |-> "ok", content |-> r] : r \in RunReplies}
        \cup {[kind |-> k, content |-> <<>>] :
                 k \in {"overloaded", "server_error", "error"}}

\* A backoff without the cap of 60 seconds; the backoff property must tell
\* it from Delays.
DelaysWithoutCap(attempt) ==
    LET base_delay == (2 ^ attempt) * 1000
    IN  {base_delay + jitter : jitter \in {0, base_delay \div 10}}

\* The delay of the backoff after the attempt, in milliseconds:
\* min(2 ** attempt + jitter, 60), the jitter at one of the ends of
\* uniform(0, 0.1 * 2 ** attempt).
Delays(attempt) ==
    LET base_delay == (2 ^ attempt) * 1000
        Min(a, b)  == IF a < b THEN a ELSE b
    IN  {Min(base_delay + jitter, 60000) : jitter \in {0, base_delay \div 10}}

\* A client that retries after any InternalServerError; the retry property
\* must tell it from AfterCompletion.
AfterCompletionRetryingServerErrors(f, o) ==
    LET g == [f EXCEPT !.llm_calls = @ + 1, !.handled = Append(@, o)]
    IN  IF o.kind = "ok"
        THEN [agent |-> Return(g, [kind |-> "content", value |-> o.content]),
              sleeps |-> FALSE]
        ELSE IF o.kind \in {"overloaded", "server_error"} /\ f.turn < f.max_turns - 1
        THEN [agent |-> [g EXCEPT !.turn = @ + 1], sleeps |-> TRUE]
        ELSE [agent |-> Return(g, [kind |-> "raise", value |-> o.kind]),
              sleeps |-> FALSE]

\* One iteration of the retry loop, the completion call having done o: the
\* agent after it, and whether time.sleep was called.
AfterCompletion(f, o) ==
    LET g == [f EXCEPT !.llm_calls = @ + 1, !.handled = Append(@, o)]
    IN  IF o.kind = "ok"
        THEN [agent |-> Return(g, [kind |-> "content", value |-> o.content]),
              sleeps |-> FALSE]
        ELSE IF o.kind = "overloaded" /\ f.turn < f.max_turns - 1
        THEN [agent |-> [g EXCEPT !.turn = @ + 1], sleeps |-> TRUE]
        ELSE [agent |-> Return(g, [kind |-> "raise", value |-> o.kind]),
              sleeps |-> FALSE]

\* for attempt in range(max_retries): one iteration
CompletionAttempt ==
    /\ Running("llm", "loop")
    /\ Top.turn < Top.max_turns
    /\ \E o \in CompletionOutcomes :
           LET r == AfterCompletion(Top, o)
           IN  /\ stack' = SetTop(r.agent)
               /\ IF r.sleeps
                  THEN \E delay \in Delays(Top.turn) :
                           call' = Called("sleep", <<delay>>, NoneV)
                  ELSE call' = call
    /\ UNCHANGED <<hubs, clock, psrInvoked, harvest>>

InitLLM == InitWith({<<NewAgent("llm", 1, DefaultMaxRetries, <<>>)>>})

NextLLM == CompletionAttempt

SpecLLM == InitLLM /\ [][NextLLM]_vars

---------------------------------------------------------------------------
(* One agent's TurnExecutor and TodoManager: execute is called again and   *)
(* again on a reply that holds one todo tag.  The agent is of kind "todo"; *)
(* `call` holds the execute that has returned, until its caller has used   *)
(* the result: its reply, the todo manager as the call found it, and its   *)
(* ExecutionResult.                                                        *)

MaxOps == 2
MaxTodoId == 2

\* The contents of the add operations: one character, and one character
\* more than truncate_content keeps.
ShortContent == <<"A">>
LongContent == [i \in 1..(TruncateMaxLength + 1) |-> "b"]

\* The operations of a todo tag as the YAML document gives them; an add
\* may leave out its content.
TodoOps ==
    {[action |-> "add", content |-> c] : c \in {ShortContent, LongContent}}
        \cup {[action |-> "add"], [action |-> "view_all"]}
        \cup {[action |-> a, task_id |-> k] :
                  a \in {"complete", "delete"}, k \in 1..MaxTodoId}

\* Operations with a field that is empty, not positive or left out: an add
\* with the content "", a complete or delete with the task_id 0 or none.
TodoOpsUnfit ==
    {[action |-> "add", content |-> <<>>]}
        \cup {[action |-> a, task_id |-> 0] : a \in {"complete", "delete"}}
        \cup {[action |-> a] : a \in {"complete", "delete"}}

\* The batch of two adds, a complete of the first, a delete of the second
\* and a view_all, with the view_all flag set.
ScenarioTag ==
    Tag("todo", "mapping",
        [operations |-> <<[action |-> "add", content |-> <<"A">>],
                          [action |-> "add", content |-> <<"B">>],
                          [action |-> "complete", task_id |-> 1],
                          [action |-> "delete", task_id |-> 2],
                          [action |-> "view_all"]>>,
         view_all |-> TRUE])

\* The todo tags: up to MaxOps operations; the shorter lists (the empty
\* one, which is not a valid batch, among them) with view_all set; the
\* lists that end with an unfit operation after adds; and the scenario.
TodoTags ==
    {ScenarioTag} \cup
    {Tag("todo", "mapping", [operations |-> ops]) :
        ops \in SeqsUpTo(TodoOps, MaxOps) \ {<<>>}}
        \cup {Tag("todo", "mapping", [operations |-> ops, view_all |-> TRUE]) :
                  ops \in SeqsUpTo(TodoOps, MaxOps - 1)}
        \cup {Tag("todo", "mapping", [operations |-> Append(ops, u)]) :
                  ops \in SeqsUpTo({[action |-> "add", content |-> ShortContent]},
                                   MaxOps - 1),
                  u \in TodoOpsUnfit}

\* execute(llm_output) for a reply of one todo tag, called by the agent f:
\* the parser, then the loop over the one action, handle_action
\* dispatching to _handle_batch_todo on the agent's own todo manager.
ExecuteTodo(f, tag) ==
    LET b == BeginExecute(f, <<tag>>)
    IN  IF b.pc = "result" THEN b
        ELSE LET r == HandleBatchTodo(f.todo_manager, b.actions[1])
             IN  [AfterHandler(b, b.actions[1], r) EXCEPT
                      !.todo_manager = r.todo_manager]

TodoExecute ==
    /\ Running("todo", "loop")
    /\ \E tag \in TodoTags :
           \E g \in {ExecuteTodo(Top, tag)} :
               /\ g.todo_manager.next_id <= MaxTodoId + 1
               /\ stack' = SetTop(g)
               /\ call' = Called("execute", <<tag, Top.todo_manager>>, g.result[1])
    /\ UNCHANGED <<hubs, clock, psrInvoked, harvest>>

\* The caller has used the ExecutionResult: the locals of execute are
\* gone, and the agent is ready for its next reply.
TodoTurnEnd ==
    /\ Running("todo", "result")
    /\ stack' = SetTop([ClearExecute(Top) EXCEPT !.pc = "loop"])
    /\ call' = NoCall
    /\ UNCHANGED <<hubs, clock, psrInvoked, harvest>>

InitTodo == InitWith({<<NewAgent("todo", 1, 0, <<>>)>>})

NextTodo == TodoExecute \/ TodoTurnEnd

SpecTodo == InitTodo /\ [][NextTodo]_vars

---------------------------------------------------------------------------
(* utils/llm_client.py: the messages get_llm_response hands to             *)
(* litellm.completion.  A model identifier is the sequence of its pieces;  *)
(* the content of a message is a string or a list of parts, and a part     *)
(* may carry a cache_control marker.                                       *)

StrContent(text) == [kind |-> "str", text |-> text]
ListContent(items) == [kind |-> "list", items |-> items]
Ephemeral == [type |-> "ephemeral"]
TextPart(text, cache_control) ==
    [type |-> "text", text |-> Some(text), cache_control |-> cache_control]
ChatMessage(role, content) == [role |-> role, content |-> content]

\* needle in s
IsSubstring(needle, s) ==
    \E i \in 0..(Len(s) - Len(needle)) : SubSeq(s, i + 1, i + Len(needle)) = needle

\* The body applied to the system message and to each of the last two user
\* messages: a string is promoted to one marked text part, the text parts of
\* a list are marked.
WithCacheControl(msg) ==
    IF msg.content.kind = "str"
    THEN [msg EXCEPT !.content =
              ListContent(<<TextPart(msg.content.text, Some(Ephemeral))>>)]
    ELSE IF msg.content.kind = "list"
    THEN [msg EXCEPT !.content = ListContent(
              [i \in 1..Len(msg.content.items) |->
                  IF ~IsNone(msg.content.items[i].text)
                  THEN [msg.content.items[i] EXCEPT !.cache_control = Some(Ephemeral)]
                  ELSE msg.content.items[i]])]
    ELSE msg

\* The indices of the messages of a role, in ascending order
RECURSIVE IndicesOf(_, _, _)
IndicesOf(messages, role, i) ==
    IF i > Len(messages) THEN <<>>
    ELSE (IF messages[i].role = role THEN <<i>> ELSE <<>>)
             \o IndicesOf(messages, role, i + 1)

\* The messages after the three marking steps: the system message found
\* last, the last user message, the user message before it.
MarkedMessages(messages) ==
    LET systems      == IndicesOf(messages, "system", 1)
        user_indices == IndicesOf(messages, "user", 1)
        Mark(ms, i)  == [ms EXCEPT ![i] = WithCacheControl(@)]
        m1 == IF systems # <<>> THEN Mark(messages, systems[Len(systems)])
              ELSE messages
        m2 == IF Len(user_indices) >= 1
              THEN Mark(m1, user_indices[Len(user_indices)]) ELSE m1
        m3 == IF Len(user_indices) >= 2
              THEN Mark(m2, user_indices[Len(user_indices) - 1]) ELSE m2
    IN  m3

\* A caching that marks the caller's messages themselves, without the deep
\* copy; the frame property must tell it from
\* apply_anthropic_caching_if_possible.
apply_anthropic_caching_in_place(messages, model) ==
    IF ~IsSubstring(<<"anthropic", "/">>, model)
    THEN [caller |-> messages, sent |-> messages]
    ELSE [caller |-> MarkedMessages(messages), sent |-> MarkedMessages(messages)]

\* _apply_anthropic_caching_if_possible: the caller's list after the call
\* and the list returned, which get_llm_response hands to
\* litellm.completion.
apply_anthropic_caching_if_possible(messages, model) ==
    IF ~IsSubstring(<<"anthropic", "/">>, model)
    THEN [caller |-> messages, sent |-> messages]
    ELSE [caller |-> messages, sent |-> MarkedMessages(messages)]

---------------------------------------------------------------------------
(* get_llm_response called by an agent on its messages: the system message *)
(* first (OrchestratorAgent._get_llm_response, Subagent.run), then user    *)
(* and assistant messages, every content a string.  `call` holds the call  *)
(* of litellm.completion: the model, the caller's list before the call,    *)
(* and the caller's list and the list sent.                                *)

MaxMessages == 6

ModelIds ==
    {<<"anthropic", "/", "claude">>,
     <<"openrouter", "/", "anthropic", "/", "claude">>,
     <<"openai", "/", "gpt">>,
     <<"anthropic">>,
     <<"claude">>}

\* The i-th message has the text i.
CallerMessages ==
    UNION {{[i \in 1..n |-> ChatMessage(IF i = 1 THEN "system" ELSE roles[i - 1],
                                        StrContent(i))] :
               roles \in [1..(n - 1) -> {"user", "assistant"}]} :
           n \in 1..MaxMessages}

SendMessages ==
    /\ Running("client", "loop")
    /\ call.op = "none"
    /\ \E model \in ModelIds, messages \in CallerMessages :
           call' = Called("completion", <<model, messages>>,
                          apply_anthropic_caching_if_possible(messages, model))
    /\ UNCHANGED <<hubs, stack, clock, psrInvoked, harvest>>

CompletionReturns ==
    /\ Running("client", "loop")
    /\ call.op = "completion"
    /\ call' = NoCall
    /\ UNCHANGED <<hubs, stack, clock, psrInvoked, harvest>>

InitCache == InitWith({<<NewAgent("client", 1, 0, <<>>)>>})

NextCache == SendMessages \/ CompletionReturns

SpecCache == InitCache /\ [][NextCache]_vars

---------------------------------------------------------------------------
(* Properties.                                                             *)

ContextStore == hubs[1].context_store

\* C1: in any sequence of hub operations, an entry of the context store is
\* never removed and never changes (content, reported_by, task_id); an
\* add_context with an id already stored returns False, and the AddContext
\* handler then returns a warning with is_error true, the store keeping its
\* size.
C1_ContextImmutability ==
    [][/\ \A id \in DOMAIN ContextStore :
              /\ id \in DOMAIN ContextStore'
              /\ ContextStore'[id] = ContextStore[id]
       /\ (call'.op = "add_context" /\ call'.args[1] \in DOMAIN ContextStore)
              => call'.ret = Some(FALSE)
       /\ (call'.op = "handle_add_context" /\ call'.args[1] \in DOMAIN ContextStore)
              => /\ call'.ret[1].is_error
                 /\ call'.ret[1].output.text[1] = "[WARNING] Context already exists"
                 /\ Cardinality(DOMAIN ContextStore') = Cardinality(DOMAIN ContextStore)
      ]_vars

\* The handler was given an id already stored, with another content, after a
\* subagent result had stored an entry.
C1_Witness ==
    /\ call.op = "handle_add_context"
    /\ call.ret[1].is_error
    /\ ContextStore[call.args[1]].content # call.args[2]
    /\ \E id \in DOMAIN ContextStore : ContextStore[id].reported_by \in TaskIds

Tasks == hubs[1].tasks

\* C2: in every state of an orchestrator run, a task is completed if and
\* only if process_subagent_result has been invoked for its id; a completed
\* task has completed_at set and every id of result.context_ids_stored is a
\* key of the context store.
C2_TaskLifecycle ==
    \A task_id \in DOMAIN Tasks :
        LET task == Tasks[task_id]
        IN  /\ task.status = "completed" <=> task_id \in psrInvoked
            /\ task.status = "completed" =>
                   /\ ~IsNone(task.completed_at)
                   /\ ~IsNone(task.result)
                   /\ \A i \in 1..Len(task.result[1].context_ids_stored) :
                          task.result[1].context_ids_stored[i] \in DOMAIN ContextStore

\* One task is completed with a stored context, another was created and its
\* launch failed.
C2_Witness ==
    /\ \E task_id \in DOMAIN Tasks :
           /\ Tasks[task_id].status = "completed"
           /\ Tasks[task_id].result[1].context_ids_stored # <<>>
    /\ \E task_id \in DOMAIN Tasks :
           /\ Tasks[task_id].status = "created"
           /\ Tasks[task_id].agent_type = "exploratory"
    /\ stack[1].pc = "returned"

\* The hub after the handler of the waiting orchestrator processes the
\* report its subagent returned.
HubAfterReport ==
    process_subagent_result(hubs[1], stack[1].pending[1].task_id,
                            stack[2].returned[1], clock).hub

\* C5: from the start of a subagent to the return of its report, the
\* orchestrator's hub is unchanged whatever the subagent does; the subagent's
\* only effect on it is the process_subagent_result call made with the
\* returned report.
C5_HubIsolation ==
    [][/\ (Len(stack) >= 2 /\ Len(stack') >= 2) => hubs'[1] = hubs[1]
       /\ (Len(stack) = 2 /\ Len(stack') = 1) => hubs'[1] = HubAfterReport
      ]_vars

\* A subagent has created a task and stored a context, in a hub of its own.
C5_Witness ==
    /\ Len(stack) = 2
    /\ hubs[2].task_counter > 0
    /\ "c1" \in DOMAIN hubs[2].context_store
    /\ "c1" \notin DOMAIN ContextStore
    /\ hubs[1].task_counter > 0

\* C6: a subagent runs synchronously.  While the orchestrator waits in a
\* launch handler it makes no LLM call and executes no action: it does not
\* change at all until the step in which the report is processed by the hub,
\* and that step completes the very action that launched the subagent.
C6_Synchronous ==
    [][/\ Len(stack') >= 2 => stack'[1].pc = "wait"
       /\ stack[1].pc = "wait" =>
              \/ stack'[1] = stack[1] /\ psrInvoked' = psrInvoked
              \/ /\ Len(stack) = 2 /\ stack[2].pc = "returned" /\ Len(stack') = 1
                 /\ psrInvoked' = psrInvoked \cup {stack[1].pending[1].task_id}
                 /\ hubs'[1] = HubAfterReport
                 /\ stack'[1].llm_calls = stack[1].llm_calls
                 /\ Len(stack'[1].handled) = Len(stack[1].handled) + 1
                 /\ stack'[1].handled[Len(stack'[1].handled)].action
                        = stack[1].actions[stack[1].cursor]
      ]_vars

\* An action that follows a launch in the same reply has been executed.
C6_Witness ==
    /\ Len(stack) = 1
    /\ Len(stack[1].handled) = 2
    /\ stack[1].handled[1].action.type \in {"launch_subagent", "task_create"}
    /\ stack[1].handled[1].output.text[1] \in {"Subagent completed task", "Created task"}
    /\ stack[1].handled[2].outcome = "returned"
    /\ psrInvoked # {}

\* C7: after an orchestrator run the reported totals are the orchestrator's
\* own token counts plus the sum of the meta token counts of every subagent
\* report returned to the orchestrator during the run.
C7_TokenTotals ==
    stack[1].pc = "returned" =>
        /\ stack[1].returned[1].total_input_tokens =
               count_input_tokens(stack[1].messages) + harvest.total_input_tokens
        /\ stack[1].returned[1].total_output_tokens =
               count_output_tokens(stack[1].messages) + harvest.total_output_tokens

\* C3: for any max_turns >= 0 and any behaviour of the LLM, Subagent.run
\* terminates and returns a SubagentReport, after at most max_turns + 1
\* calls of the LLM client.
C3_SubagentTerminates ==
    /\ [](\A i \in 1..Len(stack) : stack[i].llm_calls <= stack[i].max_turns + 1)
    /\ <>(/\ Len(stack) = 1
          /\ stack[1].pc = "returned"
          /\ DOMAIN stack[1].returned[1] = {"contexts", "comments", "meta"}
          /\ stack[1].llm_calls <= stack[1].max_turns + 1)

\* A run with the largest max_turns has returned after max_turns + 1 calls,
\* one of which raised.
C3_Witness ==
    /\ Len(stack) = 1
    /\ stack[1].pc = "returned"
    /\ stack[1].max_turns = MaxSubTurns
    /\ stack[1].llm_calls = MaxSubTurns + 1
    /\ Len(stack[1].messages) < 2 + 2 * stack[1].max_turns

\* The Report actions among the valid actions of the forced reply of f
ReportsOfReply(f) ==
    SelectSeq(parse_response(f.llm_output).actions, LAMBDA a : a.type = "report")

\* C4: when the turns 1..max_turns end without a report, the report demand
\* is added to the messages and exactly one more LLM call is made; if that
\* reply contains a Report action the run returns that report with
\* meta.num_turns = max_turns + 1, otherwise it returns a fallback report
\* with empty contexts and the trajectory attached.
C4_ForcedReport ==
    \A i \in 1..Len(stack) :
        LET f == stack[i]
        IN  (f.kind = "sub" /\ f.pc = "returned" /\ f.phase = "forced") =>
                LET report  == f.returned[1]
                    reports == ReportsOfReply(f)
                IN  /\ f.llm_calls = f.max_turns + 1
                    /\ \E k \in 1..Len(f.messages) :
                           f.messages[k].role = "user" /\ f.messages[k].size = 2
                    /\ IF reports # <<>>
                       THEN /\ report.comments = reports[1].comments
                            /\ report.meta[1].num_turns = Some(f.max_turns + 1)
                       ELSE /\ report.contexts = <<>>
                            /\ report.comments = FallbackComments
                            /\ report.meta[1].trajectory = f.messages

---------------------------------------------------------------------------
(* Properties of one call of TurnExecutor.execute.                         *)

Executor == stack[1]
ExecuteReturned == Executor.pc = "result"
Parsed == parse_response(Executor.llm_output)
Calls == Executor.handled
ReturnedCalls == SelectSeq(Calls, LAMBDA c : c.outcome = "returned")
ActionsOf(calls) == [i \in 1..Len(calls) |-> calls[i].action]
ParseErrorResponses == [i \in 1..Len(Parsed.errors) |-> ParseErrorResponse(Parsed.errors[i])]
CallResponses ==
    [i \in 1..Len(Calls) |-> IF Calls[i].outcome = "returned" THEN Calls[i].output
                             ELSE ExceptionResponse(Calls[i].output)]

\* The actions of a list up to its first Finish
UpToFirstFinish(actions) ==
    LET finishes == {k \in 1..Len(actions) : actions[k].type = "finish"}
    IN  IF finishes = {} THEN actions
        ELSE SubSeq(actions, 1, CHOOSE k \in finishes : \A j \in finishes : k <= j)

\* The handlers ran on the actions of the reply, in the order of the reply,
\* and actions_executed lists those that returned.
ExecutedInReplyOrder ==
    /\ \A i \in 1..Len(Calls) : Calls[i].action = Parsed.actions[i]
    /\ Executor.result[1].actions_executed = ActionsOf(ReturnedCalls)

\* C8 as stated: actions_executed lists the executed actions in reply order,
\* and env_responses has the length of actions_executed, env_responses[i]
\* being the handler output of actions_executed[i].
C8_OneToOne ==
    ExecuteReturned =>
        /\ ExecutedInReplyOrder
        /\ Len(Executor.result[1].env_responses)
               = Len(Executor.result[1].actions_executed)
        /\ \A i \in 1..Len(ReturnedCalls) :
               Executor.result[1].env_responses[i] = ReturnedCalls[i].output

\* C8, amended: actions_executed lists the executed actions in reply order;
\* env_responses is "No actions were attempted." alone when no action tag
\* was found, and otherwise one "[PARSE ERROR]" entry per parse error
\* followed by one entry per handler call in order (the handler's output, or
\* "[ERROR] Action execution failed" for a handler that raised, whose action
\* is not in actions_executed).  The two lists are aligned one to one when an
\* action tag was found, no tag failed to parse and no handler raised.
C8_ResponsesAligned ==
    ExecuteReturned =>
        LET result == Executor.result[1]
        IN  /\ ExecutedInReplyOrder
            /\ IF ~Parsed.found_action_attempt
               THEN /\ result.env_responses = <<NoActionsResponse>>
                    /\ result.actions_executed = <<>>
               ELSE result.env_responses = ParseErrorResponses \o CallResponses
            /\ (/\ Parsed.found_action_attempt
                /\ Parsed.errors = <<>>
                /\ Len(ReturnedCalls) = Len(Calls))
                   => /\ Len(result.env_responses) = Len(result.actions_executed)
                      /\ \A i \in 1..Len(Calls) :
                             /\ result.actions_executed[i] = Calls[i].action
                             /\ result.env_responses[i] = Calls[i].output

\* A reply with a parse error, a handler that raised and an executed action.
C8_Witness ==
    /\ ExecuteReturned
    /\ Parsed.errors # <<>>
    /\ ReturnedCalls # <<>>
    /\ Len(ReturnedCalls) < Len(Calls)

\* C9 as stated: when the valid actions of a reply have a Finish at position
\* k, execute runs exactly the actions 1..k, and returns done = true with
\* that Finish action's message.
C9_AnyFinish ==
    ExecuteReturned =>
        \A k \in 1..Len(Parsed.actions) :
            Parsed.actions[k].type = "finish" =>
                /\ ActionsOf(Calls) = SubSeq(Parsed.actions, 1, k)
                /\ Executor.result[1].done
                /\ Executor.result[1].finish_message = Some(Parsed.actions[k].message)

\* C9, amended: when the first Finish among the valid actions of a reply is
\* at position k, execute runs exactly the actions 1..k and none after it,
\* and returns done = true with that Finish action's message.
C9_FirstFinish ==
    ExecuteReturned =>
        \A k \in 1..Len(Parsed.actions) :
            (/\ Parsed.actions[k].type = "finish"
             /\ \A j \in 1..(k - 1) : Parsed.actions[j].type # "finish")
                => /\ ActionsOf(Calls) = SubSeq(Parsed.actions, 1, k)
                   /\ Executor.result[1].done
                   /\ Executor.result[1].finish_message
                          = Some(Parsed.actions[k].message)

\* A Finish in the middle of three valid actions.
C9_Witness ==
    /\ ExecuteReturned
    /\ Len(Parsed.actions) = 3
    /\ Parsed.actions[1].type # "finish"
    /\ Parsed.actions[2].type = "finish"
    /\ Len(Calls) = 2

FailsAlone(tag) == parse_response(<<tag>>).errors # <<>>
ValidAlone(tag) == parse_response(<<tag>>).actions # <<>>

\* C10: a tag that fails decoding or validation does not affect its
\* siblings: every tag that is valid on its own is parsed into its action,
\* and these are executed in reply order up to the first Finish; every
\* failing tag yields exactly one error, rendered as one "[PARSE ERROR]"
\* environment response.
C10_TagIsolation ==
    ExecuteReturned =>
        LET reply   == Executor.llm_output
            valid   == SelectSeq(reply, ValidAlone)
            failing == SelectSeq(reply, FailsAlone)
        IN  /\ Parsed.actions =
                   [i \in 1..Len(valid) |-> parse_response(<<valid[i]>>).actions[1]]
            /\ Parsed.errors =
                   [i \in 1..Len(failing) |-> parse_response(<<failing[i]>>).errors[1]]
            /\ ActionsOf(Calls) = UpToFirstFinish(Parsed.actions)
            /\ SelectSeq(Executor.result[1].env_responses,
                         LAMBDA r : r.kind = "parse_error")
                   = [i \in 1..Len(failing) |->
                         ParseErrorResponse(parse_response(<<failing[i]>>).errors[1])]

\* A valid tag between two failing ones has been executed.
C10_Witness ==
    /\ ExecuteReturned
    /\ Len(Executor.llm_output) = 3
    /\ FailsAlone(Executor.llm_output[1])
    /\ ValidAlone(Executor.llm_output[2])
    /\ FailsAlone(Executor.llm_output[3])
    /\ Len(Calls) = 1

\* The handler calls of the execute that raised
RaisedCalls == {i \in 1..Len(Calls) : Calls[i].outcome = "raised"}

\* The response of the i-th handler call, which raised, is the
\* "[ERROR] Action execution failed: <msg>" entry, and has_error is set.
RaisedCallReported(i) ==
    LET result == Executor.result[1]
        r      == result.env_responses[Len(Parsed.errors) + i]
    IN  /\ Len(result.env_responses) >= Len(Parsed.errors) + i
        /\ r = ExceptionResponse(Calls[i].output)
        /\ r.kind = "exception"
        /\ result.has_error
        /\ Calls[i].action = Parsed.actions[i]

\* C11 as stated: if the handler of the i-th action of a turn raises, an
\* "[ERROR] Action execution failed: <msg>" response is added, has_error is
\* true, and every later action of the reply is executed in order.
C11_AllLaterExecuted ==
    ExecuteReturned =>
        \A i \in RaisedCalls :
            /\ RaisedCallReported(i)
            /\ ActionsOf(Calls) = Parsed.actions

\* C11, amended: if the handler of the i-th action of a turn raises, the
\* turn is not aborted: an "[ERROR] Action execution failed: <msg>" response
\* is added in the action's place, has_error is true, and the later actions
\* of the reply are executed in order exactly as after a handler that
\* returned: up to and including the first Finish among them, all of them
\* when there is none.
C11_ContinuesAfterException ==
    ExecuteReturned =>
        \A i \in RaisedCalls :
            /\ RaisedCallReported(i)
            /\ ActionsOf(Calls) = UpToFirstFinish(Parsed.actions)
            /\ i < Len(Parsed.actions) =>
                   /\ Len(Calls) > i
                   /\ Calls[i + 1].action = Parsed.actions[i + 1]

\* The first handler raised and the two actions after it were executed.
C11_Witness ==
    /\ ExecuteReturned
    /\ Len(Calls) = 3
    /\ Calls[1].outcome = "raised"
    /\ Calls[2].outcome = "returned"
    /\ Calls[3].outcome = "returned"
    /\ Len(Executor.result[1].actions_executed) = 2

\* No top-level tag of the reply is outside the ignored set.
NoActionAttempted(reply) == \A i \in 1..Len(reply) : reply[i].name \in IGNORED_TAGS

\* C12: for a reply in which no action was attempted, execute invokes no
\* handler and changes no state (the hub and the handler are as before the
\* call), and returns at once the terminal result: no actions executed, the
\* single response "No actions were attempted.", has_error and done true.
C12_NoActionsTerminal ==
    [][(Executor.pc = "loop" /\ NoActionAttempted(Executor'.llm_output)) =>
          /\ hubs' = hubs
          /\ Executor'.handled = <<>>
          /\ Executor' = [Executor EXCEPT
                 !.llm_output = Executor'.llm_output,
                 !.pc = "result",
                 !.result = Some([actions_executed |-> <<>>,
                                  env_responses |-> <<NoActionsResponse>>,
                                  has_error |-> TRUE,
                                  finish_message |-> NoneV,
                                  done |-> TRUE,
                                  subagent_trajectories |-> NoneV])]
          /\ NoActionsResponse.text = <<"No actions were attempted.">>
      ]_vars

\* Execute returned for a reply made of ignored tags only.
C12_Witness ==
    /\ ExecuteReturned
    /\ Len(Executor.llm_output) = 2
    /\ NoActionAttempted(Executor.llm_output)
    /\ Executor.result[1].done
    /\ Executor.result[1].env_responses = <<NoActionsResponse>>

\* The tags of the reply that are not ignored, the ignored set being matched
\* on the tag's name, or on its lower-cased name.
AttemptedByName ==
    SelectSeq(Executor.llm_output, LAMBDA t : t.name \notin IGNORED_TAGS)
AttemptedByLowerName ==
    SelectSeq(Executor.llm_output, LAMBDA t : Lower(t.name) \notin IGNORED_TAGS)

\* found_action_attempt is true exactly when some tag is attempted; the
\* ignored tags yield neither an action nor an error, every attempted tag
\* yields one of the two.
AttemptRule(attempted) ==
    /\ Parsed.found_action_attempt = (attempted # <<>>)
    /\ Len(Parsed.actions) + Len(Parsed.errors) = Len(attempted)
    /\ attempted = <<>> =>
           /\ Parsed.actions = <<>>
           /\ Parsed.errors = <<>>
           /\ ~Parsed.found_action_attempt

\* C13 as stated: parse_response returns found_action_attempt = true if and
\* only if the reply has a top-level tag whose name is not in the ignored set
\* {think, reasoning, plan_md}; ignored tags produce neither an action nor an
\* error, so a reply of ignored tags only yields no actions, no errors and
\* found_action_attempt = false.
C13_AttemptIffNameNotIgnored ==
    AttemptRule(AttemptedByName)

\* C13, amended: the same, the ignored set being matched without regard to
\* case: a tag is ignored when its lower-cased name is in the set.
C13_AttemptIffLowerNameNotIgnored ==
    AttemptRule(AttemptedByLowerName)

\* A reply of a <think>, a <Think> and one action tag has been parsed.
C13_Witness ==
    /\ Len(Executor.llm_output) = 3
    /\ \E i, j, k \in 1..3 :
           /\ Executor.llm_output[i].name = "think"
           /\ Executor.llm_output[j].name = "Think"
           /\ Executor.llm_output[k].name = "bash"
    /\ Parsed.found_action_attempt
    /\ Len(Parsed.actions) + Len(Parsed.errors) = 1

\* The orchestrator of the run
Orchestrator == stack[1]

\* The result of the turn was done: its last executed action is a Finish, or
\* no action was attempted in it.
TurnWasDone(turn) ==
    \/ turn.env_responses = <<NoActionsResponse>>
    \/ /\ turn.actions_executed # <<>>
       /\ turn.actions_executed[Len(turn.actions_executed)].type = "finish"

ExplorerTypes == {"explorer", "exploratory"}

\* The reply is one <task_create> with auto_launch = true for an explorer.
ExplorerAutoLaunch(reply) ==
    /\ Len(reply) = 1
    /\ reply[1].name = "task_create"
    /\ reply[1].yaml = "mapping"
    /\ reply[1].data.agent_type \in ExplorerTypes
    /\ reply[1].data.auto_launch

\* The ids of the contexts of a report, in report order
ReportIds(report) == [i \in 1..Len(report.contexts) |-> report.contexts[i].id]

\* C15: when a TaskCreate action with auto_launch = true for an explorer-type
\* task is parsed and executed by the orchestrator (here: in the first turn,
\* on the empty hub), the hub afterwards contains exactly one new task, a
\* subagent has been run for it, the task's status is completed, and
\* result.context_ids_stored equals the ids of the contexts in the
\* subagent's Report.
C15_ExplorerAutoLaunch ==
    /\ []((/\ Len(stack) = 1
           /\ Orchestrator.pc = "result"
           /\ Orchestrator.turn = 1
           /\ ExplorerAutoLaunch(Orchestrator.llm_output))
          => /\ DOMAIN Tasks = {TaskId(1)}
             /\ psrInvoked = {TaskId(1)}
             /\ Tasks[TaskId(1)].status = "completed"
             /\ ~IsNone(Tasks[TaskId(1)].result))
    /\ [][(/\ Len(stack) = 2 /\ Len(stack') = 1
           /\ ExplorerAutoLaunch(Orchestrator.llm_output))
          => Tasks'[TaskId(1)].result[1].context_ids_stored
                 = ReportIds(stack[2].returned[1])]_vars

\* What a call process_subagent_result(task_id, report) must have done to
\* the store `before`, giving `after` and the result `ret`, when the items
\* at the indices `fresh` of the report are those it has to store: they are
\* stored with their content and reported_by = task_id, their ids are the
\* context_ids_stored in report order, and nothing else changes.
StoredExactly(fresh, task_id, report, before, after, ret) ==
    /\ ret.context_ids_stored = [k \in 1..Len(fresh) |-> report.contexts[fresh[k]].id]
    /\ ret.task_id = task_id
    /\ \A k \in 1..Len(fresh) :
           LET ctx == report.contexts[fresh[k]]
           IN  /\ ctx.id \in DOMAIN after
               /\ after[ctx.id].content = ctx.content
               /\ after[ctx.id].reported_by = task_id
    /\ \A id \in DOMAIN before : id \in DOMAIN after /\ after[id] = before[id]
    /\ DOMAIN after =
           DOMAIN before \cup {report.contexts[fresh[k]].id : k \in 1..Len(fresh)}

\* The indices of the items of the report whose id is not in the store and
\* is not the id of an earlier item of the report.
NewIdItems(report, before) ==
    LET items == report.contexts
    IN  SelectSeq([i \in 1..Len(items) |-> i],
                  LAMBDA i : /\ items[i].id \notin DOMAIN before
                             /\ \A j \in 1..(i - 1) : items[j].id # items[i].id)

\* The same, among the items whose id and content are both non-empty.
NewIdNonEmptyItems(report, before) ==
    LET items == report.contexts
        Full(i) == items[i].id # "" /\ items[i].content # ""
    IN  SelectSeq([i \in 1..Len(items) |-> i],
                  LAMBDA i : /\ Full(i)
                             /\ items[i].id \notin DOMAIN before
                             /\ \A j \in 1..(i - 1) :
                                    Full(j) => items[j].id # items[i].id)

\* C16 as stated: after process_subagent_result(taskId, report), every
\* context item of the report whose id was not already in the store is in
\* the store with that content and reported_by = taskId; context_ids_stored
\* is exactly the list of those ids in report order; items whose id was
\* already present (a repeated id of the same report included) are skipped
\* and leave the existing entry unchanged.
C16_StoresEveryNewId ==
    [][call'.op = "process_subagent_result" =>
          StoredExactly(NewIdItems(call'.args[2], ContextStore),
                        call'.args[1], call'.args[2],
                        ContextStore, ContextStore', call'.ret[1])]_vars

\* C16, amended: the same for the items whose id and content are both
\* non-empty; an item with an empty id or an empty content is dropped: it is
\* not stored, not listed in context_ids_stored, and does not make a later
\* item with its id a repetition.
C16_StoresNewNonEmpty ==
    [][call'.op = "process_subagent_result" =>
          StoredExactly(NewIdNonEmptyItems(call'.args[2], ContextStore),
                        call'.args[1], call'.args[2],
                        ContextStore, ContextStore', call'.ret[1])]_vars

\* A report of two items was processed on a store that held the id of the
\* first: the first was skipped, the second stored.
C16_Witness ==
    /\ call.op = "process_subagent_result"
    /\ Len(call.args[2].contexts) = 2
    /\ call.ret[1].context_ids_stored = <<call.args[2].contexts[2].id>>
    /\ call.args[2].contexts[1].id \in DOMAIN ContextStore
    /\ ContextStore[call.args[2].contexts[1].id].content # call.args[2].contexts[1].content
    /\ call.args[2].contexts[1].content # ""

\* The number written by a sequence of decimal digits
RECURSIVE DigitsValue(_)
DigitsValue(ds) ==
    IF ds = <<>> THEN 0
    ELSE DigitsValue(SubSeq(ds, 1, Len(ds) - 1)) * 10 + ds[Len(ds)]

\* id is "task_" followed by k, zero-padded to at least 3 digits.
IsTaskIdOf(id, k) ==
    LET ds == Tail(id)
    IN  /\ id[1] = "task_"
        /\ Len(ds) >= 3
        /\ \A i \in 1..Len(ds) : ds[i] \in 0..9
        /\ DigitsValue(ds) = k
        /\ Len(ds) > 3 => ds[1] # 0

\* The numeric part of a task id
TaskNumber(id) == DigitsValue(Tail(id))

\* Counter values on both sides of each change of the number of digits
IdSamples == {1, 9, 10, 99, 100, 999, 1000, 1001, 9999, 10000}

\* C17: the k-th call of create_task on a hub returns the id "task_"
\* followed by k zero-padded to at least 3 digits; over any sequence of
\* creations the ids are pairwise distinct, their numeric parts strictly
\* increase in creation order, no existing task entry is overwritten, and
\* tasks[id].task_id = id for every key.
C17_TaskIds ==
    /\ [](/\ \A id \in DOMAIN Tasks : Tasks[id].task_id = id
          /\ \A k \in IdSamples : IsTaskIdOf(TaskId(k), k))
    /\ [][call'.op = "create_task" =>
             LET k  == Cardinality(DOMAIN Tasks) + 1
                 id == call'.ret[1]
             IN  /\ IsTaskIdOf(id, k)
                 /\ id \notin DOMAIN Tasks
                 /\ \A t \in DOMAIN Tasks : TaskNumber(t) < TaskNumber(id)
                 /\ \A t \in DOMAIN Tasks : t \in DOMAIN Tasks' /\ Tasks'[t] = Tasks[t]
                 /\ DOMAIN Tasks' = DOMAIN Tasks \cup {id}
                 /\ Tasks'[id].task_id = id
                 /\ Tasks'[id].status = "created"]_vars

\* The second task was created beside a first task that had been completed.
C17_Witness ==
    /\ call.op = "create_task"
    /\ call.ret = Some(TaskId(2))
    /\ DOMAIN Tasks = {TaskId(1), TaskId(2)}
    /\ Tasks[TaskId(1)].status = "completed"
    /\ Tasks[TaskId(2)].status = "created"

\* C18: after any sequence of add_turn calls the conversation history holds
\* at most 100 turns, and they are exactly the most recently added
\* min(n, 100) turns in insertion order (eviction is FIFO from the front).
C18_HistoryCap ==
    LET turns == stack[1].history
        n     == stack[1].turn
        kept  == IF n < 100 THEN n ELSE 100
    IN  /\ Len(turns) <= 100
        /\ Len(turns) = kept
        /\ \A i \in 1..kept : turns[i] = NthTurn(n - kept + i)

\* More than 100 turns were added: the first ones are gone.
C18_Witness ==
    /\ stack[1].turn = 103
    /\ Len(stack[1].history) = 100
    /\ stack[1].history[1].llm_output = 4
    /\ stack[1].history[100].llm_output = 103

\* The get_llm_response call and the outcome of its last completion attempt
Client == stack[1]
LastAttempt(f) == f.handled[Len(f.handled)]

\* C19: one get_llm_response call makes at most 10 completion attempts; a
\* further attempt is made only after a provider-overload error; the first
\* successful attempt's content is returned at once; an error that is not a
\* provider overload propagates after the attempt in which it occurred with
\* no sleep and no retry; and an overload error on the last attempt is
\* re-raised to the caller.
C19_BoundedRetry ==
    /\ [](Client.llm_calls <= 10 /\ Len(Client.handled) = Client.llm_calls)
    /\ [][/\ Client.pc = "returned" => Client' = Client
          /\ Client'.llm_calls # Client.llm_calls =>
                LET o == LastAttempt(Client')
                IN  /\ Client'.llm_calls = Client.llm_calls + 1
                    /\ Client.llm_calls > 0 => LastAttempt(Client).kind = "overloaded"
                    /\ o.kind = "ok" =>
                           /\ Client'.pc = "returned"
                           /\ Client'.returned = Some([kind |-> "content",
                                                       value |-> o.content])
                           /\ call' = call
                    /\ o.kind \in {"server_error", "error"} =>
                           /\ Client'.pc = "returned"
                           /\ Client'.returned = Some([kind |-> "raise",
                                                       value |-> o.kind])
                           /\ call' = call
                    /\ (o.kind = "overloaded" /\ Client'.llm_calls = 10) =>
                           /\ Client'.pc = "returned"
                           /\ Client'.returned = Some([kind |-> "raise",
                                                       value |-> "overloaded"])
                           /\ call' = call
                    /\ (o.kind = "overloaded" /\ Client'.llm_calls < 10) =>
                           /\ Client'.pc = "loop"
                           /\ call'.op = "sleep"
         ]_vars

\* The tenth attempt was made, after nine overload errors.
C19_Witness ==
    /\ Client.pc = "returned"
    /\ Client.llm_calls = 10
    /\ \A i \in 1..9 : Client.handled[i].kind = "overloaded"
    /\ call.op = "sleep"

---------------------------------------------------------------------------
(* The BatchTodo action and the todo list.                                 *)

TodoAgent == stack[1]

\* The last call was an execute whose tag was parsed to a BatchTodo action:
\* the action, the list the call began on and the result it returned.
BatchExecuted ==
    call.op = "execute" /\ parse_response(<<call.args[1]>>).actions # <<>>
LastBatch == parse_response(<<call.args[1]>>).actions[1]
ListBefore == call.args[2]
LastResult == call.ret[1]

\* What the contract asks of one operation on the list `tm`: an add stores
\* a pending todo under the next id; a complete or a delete of an id of the
\* list marks or removes that todo; a complete or a delete of any other id
\* fails and leaves the list as it is.
OperationFails(tm, op) ==
    op.action \in {"complete", "delete"} /\ ~Todo_has(tm, op.task_id)

Applied(tm, op) ==
    IF op.action = "add"
    THEN [todos |-> Put(tm.todos, tm.next_id,
                        [content |-> op.content, status |-> "pending"]),
          next_id |-> tm.next_id + 1]
    ELSE IF OperationFails(tm, op) \/ op.action = "view_all" THEN tm
    ELSE IF op.action = "complete"
    THEN [tm EXCEPT !.todos[op.task_id[1]].status = "completed"]
    ELSE [tm EXCEPT !.todos = [k \in (DOMAIN tm.todos) \ {op.task_id[1]} |->
                                  tm.todos[k]]]

\* The list after the first n operations, each applied to what the ones
\* before it left.
RECURSIVE AppliedInOrder(_, _, _)
AppliedInOrder(tm, operations, n) ==
    IF n = 0 THEN tm
    ELSE Applied(AppliedInOrder(tm, operations, n - 1), operations[n])

\* The positions of the operations that fail when the batch runs on tm.
FailingPositions(tm, operations) ==
    {i \in 1..Len(operations) :
        OperationFails(AppliedInOrder(tm, operations, i - 1), operations[i])}

ErrorLines(results) == SelectSeq(results, LAMBDA l : l.kind = "error")

\* The contract of one execute of the batch `action` that began on the list
\* `before`: every operation applied in order, the handler returned, with
\* one error line for each failing operation and is_error exactly when
\* there is one.
BatchContract(before, action, after, result) ==
    LET failing == FailingPositions(before, action.operations)
    IN  /\ after = AppliedInOrder(before, action.operations, Len(action.operations))
        /\ result.actions_executed = <<action>>
        /\ Len(result.env_responses) = 1
        /\ result.env_responses[1].kind = "output"
        /\ result.env_responses[1].tool = "todo"
        /\ Len(ErrorLines(result.env_responses[1].text.results)) = Cardinality(failing)
        /\ \A i \in failing :
               \E j \in 1..Len(result.env_responses[1].text.results) :
                   result.env_responses[1].text.results[j] =
                       TodoLine("error", action.operations[i].task_id, <<>>)
        /\ result.has_error = (failing # {})

\* Every add of the batch carries a content, and so does every todo of the
\* list it runs on.
WithContents(tm, action) ==
    /\ \A i \in 1..Len(action.operations) :
           action.operations[i].action = "add" =>
               ~IsNone(action.operations[i].content)
    /\ \A k \in DOMAIN tm.todos : ~IsNone(tm.todos[k].content)

\* C20: a BatchTodo action applies its add, complete and delete operations
\* in listed order; a complete or delete of an id that is not in the list
\* leaves the list unchanged, adds an error line and makes the handler
\* return is_error = true, and every later operation is still applied.
C20_BatchAppliedInOrder ==
    BatchExecuted =>
        BatchContract(ListBefore, LastBatch, TodoAgent.todo_manager, LastResult)

\* C20 for the batches whose adds all carry a content, run on a list whose
\* todos all have one: the same contract.
C20_BatchWithContentsAppliedInOrder ==
    (BatchExecuted /\ WithContents(ListBefore, LastBatch)) =>
        BatchContract(ListBefore, LastBatch, TodoAgent.todo_manager, LastResult)

\* An execute of a batch whose first operation, a delete, failed and whose
\* second, an add with a content, was applied to a list that held a todo.
C20_Witness ==
    /\ BatchExecuted
    /\ WithContents(ListBefore, LastBatch)
    /\ Len(LastBatch.operations) = 2
    /\ LastBatch.operations[1].action = "delete"
    /\ OperationFails(ListBefore, LastBatch.operations[1])
    /\ LastBatch.operations[2].action = "add"
    /\ DOMAIN ListBefore.todos # {}
    /\ LastResult.has_error
    /\ Len(ErrorLines(LastResult.env_responses[1].text.results)) = 1
    /\ Cardinality(DOMAIN TodoAgent.todo_manager.todos) =
           Cardinality(DOMAIN ListBefore.todos) + 1

---------------------------------------------------------------------------
(* The view of the todo list in the output of a batch.                     *)

\* The last execute ran _handle_batch_todo to its return: the output.
BatchReturned ==
    /\ BatchExecuted
    /\ Len(LastResult.env_responses) = 1
    /\ LastResult.env_responses[1].kind = "output"
LastOutput == LastResult.env_responses[1].text

HasViewAllOp(action) ==
    \E i \in 1..Len(action.operations) : action.operations[i].action = "view_all"

\* The output ends with the list as it is after all the operations.
EndsWithFullList ==
    LastOutput.view = Some(Todo_view_all(TodoAgent.todo_manager))

\* C21: the output of a BatchTodo action ends with the full todo list,
\* rendered after all operations have been applied, whenever the batch's
\* view_all flag is true or at least one operation has kind view_all.
C21_ViewOnFlagOrOperation ==
    (BatchReturned /\ (LastBatch.view_all \/ HasViewAllOp(LastBatch)))
        => EndsWithFullList

\* C21 for the flag alone: the output ends with the full list, rendered
\* after all operations, exactly when the batch's view_all flag is true.
C21_ViewOnFlag ==
    BatchReturned =>
        /\ LastBatch.view_all => EndsWithFullList
        /\ ~LastBatch.view_all => IsNone(LastOutput.view)

\* A batch with the flag set whose operation changed the list, and whose
\* output shows the list after the change.
C21_Witness ==
    /\ BatchReturned
    /\ LastBatch.view_all
    /\ ListBefore # TodoAgent.todo_manager
    /\ EndsWithFullList
    /\ ~LastOutput.view[1].empty

---------------------------------------------------------------------------
(* The todo tags that the validators of TodoOperation are to reject.       *)

LastTag == call.args[1]
LastOps == LastTag.data.operations

\* An add whose content is absent or empty; a complete or delete whose
\* task_id is absent or not positive.
Unfit(d) ==
    \/ d.action = "add" /\ (~Has(d, "content") \/ d.content = <<>>)
    \/ d.action \in {"complete", "delete"} /\ (~Has(d, "task_id") \/ d.task_id < 1)

\* The same, for a field that the operation carries.
UnfitGiven(d) ==
    \/ d.action = "add" /\ Has(d, "content") /\ d.content = <<>>
    \/ d.action \in {"complete", "delete"} /\ Has(d, "task_id") /\ d.task_id < 1

\* The tag was rejected at parse time: no action, one validation error for
\* the tag, reported as a parse error, and the list as it was.
RejectedAtParseTime ==
    /\ parse_response(<<LastTag>>).actions = <<>>
    /\ parse_response(<<LastTag>>).errors = <<ParseError("validation", "todo")>>
    /\ LastResult.actions_executed = <<>>
    /\ LastResult.env_responses =
           <<ParseErrorResponse(ParseError("validation", "todo"))>>
    /\ LastResult.has_error
    /\ TodoAgent.todo_manager = ListBefore

\* C22: a todo tag containing an add whose content is absent or empty, or a
\* complete or delete whose task_id is absent or not positive, is rejected
\* at parse time: a parse error is reported, no BatchTodo action is
\* produced, and the todo list is not changed.
C22_UnfitRejected ==
    (call.op = "execute" /\ \E i \in 1..Len(LastOps) : Unfit(LastOps[i]))
        => RejectedAtParseTime

\* C22 for the operations that carry the field: a tag with an add whose
\* content is the empty string, or a complete or delete whose task_id is
\* given and not positive, is rejected at parse time.
C22_UnfitGivenRejected ==
    (call.op = "execute" /\ \E i \in 1..Len(LastOps) : UnfitGiven(LastOps[i]))
        => RejectedAtParseTime

\* A tag of an add and then a complete of the id 0, executed on a list
\* that holds a todo: rejected, the add not applied.
C22_Witness ==
    /\ call.op = "execute"
    /\ Len(LastOps) = 2
    /\ LastOps[1].action = "add" /\ ~Unfit(LastOps[1])
    /\ LastOps[2].action = "complete" /\ UnfitGiven(LastOps[2])
    /\ DOMAIN ListBefore.todos # {}
    /\ RejectedAtParseTime

---------------------------------------------------------------------------
(* The entries of the parser's error list.                                 *)

FailingTags == SelectSeq(Executor.llm_output, FailsAlone)

\* The reply of a valid bash tag, an ignored think tag and a file tag with
\* an unknown action discriminator.
ResilienceReply == <<T_bash, T_think, T_file_unknown>>

\* C23: every parse error produced for a tag named T, a multiplexed tag
\* with an unknown action discriminator included, is an entry beginning
\* with "[T]"; the reply of a valid bash tag, an ignored think tag and a file
\* tag with action: bogus yields exactly one action, exactly one error
\* beginning with "[file]", and found_action_attempt = true.
C23_ErrorsBeginWithTag ==
    /\ Len(Parsed.errors) = Len(FailingTags)
    /\ \A i \in 1..Len(Parsed.errors) :
           /\ Parsed.errors[i].tag = FailingTags[i].name
           /\ Parsed.errors[i].bracketed
    /\ Executor.llm_output = ResilienceReply =>
           /\ Len(Parsed.actions) = 1
           /\ Len(Parsed.errors) = 1
           /\ Parsed.errors[1].tag = "file" /\ Parsed.errors[1].bracketed
           /\ Parsed.found_action_attempt

\* C23 as the parser has it: every parse error names its tag; the YAML and
\* validation errors begin with "[T]", and the error of a tag with no action
\* class (an unknown tag, or a multiplexed tag with an unknown
\* discriminator) is "Unknown action type: T", with no bracket.  The reply
\* of the scenario yields one action, the one error "Unknown action type:
\* file", and found_action_attempt = true.
C23_ErrorsNameTag ==
    /\ Len(Parsed.errors) = Len(FailingTags)
    /\ \A i \in 1..Len(Parsed.errors) :
           /\ Parsed.errors[i].tag = FailingTags[i].name
           /\ Parsed.errors[i].bracketed = (Parsed.errors[i].kind # "unknown")
           /\ (Parsed.errors[i].kind = "unknown") =
                  (/\ FailingTags[i].yaml # "error"
                   /\ IsNone(GetActionClassAndData(FailingTags[i]).cls))
    /\ Executor.llm_output = ResilienceReply =>
           /\ Len(Parsed.actions) = 1
           /\ Parsed.actions[1].type = "bash"
           /\ Parsed.errors = <<ParseError("unknown", "file")>>
           /\ Parsed.found_action_attempt

\* The reply of the scenario has been executed: one handler call.
C23_Witness ==
    /\ ExecuteReturned
    /\ Executor.llm_output = ResilienceReply
    /\ Len(Calls) = 1
    /\ Len(Executor.result[1].env_responses) = 2

---------------------------------------------------------------------------
(* The scenario batch on a new todo manager.                               *)

ScenarioExecuted ==
    call.op = "execute" /\ LastTag = ScenarioTag /\ ListBefore = NewTodoManager

\* The environment response lists the two "Added" lines, the "Completed"
\* and the "Deleted" line, followed by the list as it is after the batch.
ScenarioResponse ==
    /\ BatchReturned
    /\ ~LastResult.has_error
    /\ LastOutput.results =
           <<TodoLine("added", Some(1), <<"A">>), TodoLine("added", Some(2), <<"B">>),
             TodoLine("completed", Some(1), <<"A">>),
             TodoLine("deleted", Some(2), <<"B">>)>>
    /\ EndsWithFullList

\* C24: starting from an empty todo list, one BatchTodo with operations
\* [add 'A', add 'B', complete 1, delete 2, view_all] and view_all = true
\* leaves the todo list empty, and the environment response lists an
\* "Added", a "Completed" and a "Deleted" line followed by the full list.
C24_ScenarioLeavesListEmpty ==
    ScenarioExecuted =>
        /\ TodoAgent.todo_manager.todos = EmptyMap
        /\ ScenarioResponse

\* C24, amended: the same batch on a new todo manager leaves the one todo 1,
\* 'A', completed (only the deleted todo 2 is gone), and the response lists
\* the lines followed by the full list, which shows todo 1 as completed.
C24_ScenarioLeavesCompletedTodo ==
    ScenarioExecuted =>
        /\ DOMAIN TodoAgent.todo_manager.todos = {1}
        /\ TodoAgent.todo_manager.todos[1] =
               [content |-> Some(<<"A">>), status |-> "completed"]
        /\ TodoAgent.todo_manager.next_id = 3
        /\ ScenarioResponse
        /\ LastOutput.view =
               Some([empty |-> FALSE,
                     lines |-> <<[completed |-> TRUE, task_id |-> 1,
                                  content |-> Some(<<"A">>)]>>])

\* The scenario batch has been executed on a new todo manager.
C24_Witness ==
    /\ ScenarioExecuted
    /\ BatchReturned
    /\ Len(LastOutput.results) = 4

---------------------------------------------------------------------------
(* The turn of a subagent run whose reply holds a Report.                  *)

\* The agent on top has the result of a turn of the for loop of run.
SubagentTurnResult ==
    stack # <<>> /\ Top.kind = "sub" /\ Top.pc = "result" /\ Top.phase = "turns"

\* The run on top returns in this step, with the contexts and comments of
\* the Report action and the number of the turn.
ReturnsReport(action) ==
    /\ Len(stack') = Len(stack)
    /\ Top'.pc = "returned"
    /\ Top'.returned[1].contexts = action.contexts
    /\ Top'.returned[1].comments = action.comments
    /\ Top'.returned[1].meta[1].num_turns = Some(Top.turn)

\* A run that has returned makes no further LLM call.
NoCallAfterReturn ==
    \A i \in 1..Len(stack) :
        (stack[i].pc = "returned" /\ i <= Len(stack'))
            => stack'[i].llm_calls = stack[i].llm_calls

\* C25: a subagent run returns in the first turn t <= max_turns whose reply
\* contains a validly parsed Report action, wherever that action stands
\* among the reply's actions: the returned report carries that Report's
\* contexts and comments with meta.num_turns = t, and no LLM call is made
\* after turn t.
C25_ReturnsOnParsedReport ==
    [][/\ (SubagentTurnResult /\ ReportsOfReply(Top) # <<>>)
           => ReturnsReport(ReportsOfReply(Top)[1])
       /\ NoCallAfterReturn]_vars

\* C25 for the Report actions that were executed: the run returns in the
\* turn whose executed actions (those up to the first Finish) hold a Report
\* action, every context entry of which has an id and a content.
C25_ReturnsOnExecutedReport ==
    [][/\ (/\ SubagentTurnResult
           /\ check_for_report(Top.result[1].actions_executed, <<>>).kind = "report")
           => ReturnsReport(SelectSeq(Top.result[1].actions_executed,
                                      LAMBDA a : a.type = "report")[1])
       /\ NoCallAfterReturn]_vars

\* A run has returned, in its first turn, the report of a reply whose
\* Report action stood after another action.
C25_Witness ==
    /\ Len(stack) = 1
    /\ stack[1].kind = "sub" /\ stack[1].pc = "returned" /\ stack[1].phase = "turns"
    /\ stack[1].returned[1].contexts = <<C_other>>
    /\ stack[1].returned[1].meta[1].num_turns = Some(1)
    /\ stack[1].llm_calls = 1

---------------------------------------------------------------------------
(* The subagent trajectories of one orchestrator turn.                     *)

\* The trajectories of the current turn of the agent f: the handler's map
\* while execute runs, the map handed over in the result once it returned.
TurnTrajectories(f) ==
    IF f.pc = "result"
    THEN (IF IsNone(f.result[1].subagent_trajectories) THEN EmptyMap
          ELSE f.result[1].subagent_trajectories[1])
    ELSE f.trajectories

\* A subagent run returns a report with meta to the orchestrator in this step.
ReturnsToOrchestrator ==
    /\ Len(stack) = 2 /\ stack[1].kind = "orch"
    /\ stack[2].pc = "returned" /\ ~IsNone(stack[2].returned[1].meta)
    /\ Len(stack') = 1

\* The handler's map is empty whenever an agent is about to begin a turn.
EmptyAtTurnStart ==
    \A i \in 1..Len(stack) : stack[i].pc = "loop" => stack[i].trajectories = EmptyMap

\* C26: every subagent run that returns a report with meta during an
\* orchestrator turn contributes its own entry to that turn's
\* subagent_trajectories (one entry more for each run) and to no other
\* turn's; the handler's trajectory map is empty at the start of every turn.
C26_OneEntryPerRun ==
    [][/\ ReturnsToOrchestrator
           => Cardinality(DOMAIN TurnTrajectories(stack'[1]))
                  = Cardinality(DOMAIN TurnTrajectories(stack[1])) + 1
       /\ EmptyAtTurnStart]_vars

\* C26 for the last run of each task: a run that returns a report with meta
\* during an orchestrator turn leaves, under its task id, an entry with its
\* token counts in that turn's subagent_trajectories, the entries of the
\* other tasks of the turn are kept, and the handler's map is empty at the
\* start of every turn.
C26_EntryOfLastRunPerTask ==
    [][/\ ReturnsToOrchestrator
           => LET id   == stack[1].pending[1].task_id
                  meta == stack[2].returned[1].meta[1]
                  old  == TurnTrajectories(stack[1])
                  new  == TurnTrajectories(stack'[1])
              IN  /\ DOMAIN new = DOMAIN old \cup {id}
                  /\ new[id].total_input_tokens = meta.total_input_tokens
                  /\ new[id].total_output_tokens = meta.total_output_tokens
                  /\ \A k \in DOMAIN old \ {id} : new[k] = old[k]
       /\ EmptyAtTurnStart]_vars

\* An orchestrator turn has ended with the entry of a subagent run in its
\* subagent_trajectories, and the handler's map cleared.
C26_Witness ==
    /\ Len(stack) = 1 /\ stack[1].kind = "orch" /\ stack[1].pc = "result"
    /\ DOMAIN TurnTrajectories(stack[1]) = {TaskId(1)}
    /\ stack[1].trajectories = EmptyMap
    /\ psrInvoked # {}

---------------------------------------------------------------------------
(* A turn of the orchestrator in which the LLM call raises.                *)

\* The orchestrator's LLM call of this step raises: the call is made and
\* execute is not entered.
LLMCallRaises ==
    /\ Len(stack) = 1 /\ Running("orch", "loop")
    /\ Orchestrator'.llm_calls = Orchestrator.llm_calls + 1
    /\ Orchestrator'.pc \notin {"exec", "result"}

\* The last turn of the orchestrator raised: the user message it tracked has
\* no assistant message after it.
LastTurnRaised ==
    /\ Len(stack) = 1 /\ Orchestrator.pc = "loop"
    /\ Orchestrator.messages # <<>>
    /\ Orchestrator.messages[Len(Orchestrator.messages)].role = "user"

---------------------------------------------------------------------------
(* The done flag of a turn result and the completion of a run.             *)

\* The Finish actions among the executed actions
FinishesOf(actions_executed) ==
    SelectSeq(actions_executed, LAMBDA a : a.type = "finish")

\* The result is that of a reply in which no action was attempted.
NoActionsResult(result) ==
    /\ result.actions_executed = <<>>
    /\ result.env_responses = <<NoActionsResponse>>
    /\ result.finish_message = NoneV

\* The results of execute that their callers hold
TurnResults == {stack[i].result[1] : i \in {j \in 1..Len(stack) : stack[j].pc = "result"}}

\* The orchestrator's run has returned completed = true.
RunCompleted ==
    /\ Len(stack) = 1 /\ Orchestrator.kind = "orch" /\ Orchestrator.pc = "returned"
    /\ Orchestrator.returned[1].completed

---------------------------------------------------------------------------
(* The messages sent by get_llm_response.                                  *)

\* The last step called litellm.completion: the model, the caller's list
\* before the call, the caller's list after it and the list sent.
CompletionCalled == call.op = "completion"
SentModel == call.args[1]
CallerBefore == call.args[2]
CallerAfter == call.ret[1].caller
Sent == call.ret[1].sent

\* The message carries the ephemeral cache marker.
CarriesMarker(msg) ==
    /\ msg.content.kind = "list"
    /\ \E i \in 1..Len(msg.content.items) :
           msg.content.items[i].cache_control = Some(Ephemeral)

\* The positions the marker is due at: the system message and the last two
\* user messages, fewer if fewer exist.
DueForMarker(messages) ==
    LET users == IndicesOf(messages, "user", 1)
    IN  {i \in 1..Len(messages) : messages[i].role = "system"}
            \cup {users[k] : k \in {j \in 1..Len(users) : j > Len(users) - 2}}

\* C29: get_llm_response never mutates the caller's message list or its
\* messages; when the model identifier contains 'anthropic/', exactly the
\* system message and the last two user messages (fewer if fewer exist) of
\* the outgoing copy carry the ephemeral cache marker and every other
\* message is sent unchanged; for any other model all messages are sent
\* unchanged.
C29_CacheMarkers ==
    CompletionCalled =>
        /\ CallerAfter = CallerBefore
        /\ Len(Sent) = Len(CallerBefore)
        /\ IF IsSubstring(<<"anthropic", "/">>, SentModel)
           THEN \A i \in 1..Len(Sent) :
                    IF i \in DueForMarker(CallerBefore)
                    THEN /\ CarriesMarker(Sent[i])
                         /\ Sent[i].role = CallerBefore[i].role
                         /\ Sent[i].content.items =
                                <<TextPart(CallerBefore[i].content.text, Some(Ephemeral))>>
                    ELSE /\ ~CarriesMarker(Sent[i])
                         /\ Sent[i] = CallerBefore[i]
           ELSE Sent = CallerBefore

\* An Anthropic model was sent a list with three user messages and an
\* assistant message: the first user message is sent as it is, the last two
\* are marked, and the caller's list is as before.
C29_Witness ==
    /\ CompletionCalled
    /\ IsSubstring(<<"anthropic", "/">>, SentModel)
    /\ Len(IndicesOf(CallerBefore, "user", 1)) = 3
    /\ Len(IndicesOf(CallerBefore, "assistant", 1)) >= 1
    /\ Sent # CallerBefore
    /\ CallerAfter = CallerBefore

---------------------------------------------------------------------------
(* The backoff of get_llm_response.                                        *)

\* An attempt of this step failed and the loop goes on to the next one.
RetryStep == Client'.llm_calls = Client.llm_calls + 1 /\ Client'.pc = "loop"

\* C30: the delay slept after the failed attempt number a (a = 0..8) of
\* get_llm_response lies between min(2^a, 60) and 60 seconds (here in
\* milliseconds), no sleep happens after the last attempt, and the delays
\* of consecutive retries within one call are non-decreasing.
C30_BackoffDelays ==
    [][/\ RetryStep =>
              LET a     == Client.turn
                  lower == IF 2 ^ a < 60 THEN (2 ^ a) * 1000 ELSE 60000
              IN  /\ a \in 0..8
                  /\ call'.op = "sleep"
                  /\ lower <= call'.args[1] /\ call'.args[1] <= 60000
                  /\ call.op = "sleep" => call.args[1] <= call'.args[1]
       /\ (Client'.llm_calls = Client.llm_calls + 1 /\ Client.turn = 9) =>
              /\ Client'.pc = "returned"
              /\ call' = call
       /\ Client'.llm_calls = Client.llm_calls => call' = call]_vars

\* The ninth attempt (a = 8) failed and the cap of 60 seconds was slept
\* after it; the tenth attempt is still to be made.
C30_Witness ==
    /\ Client.pc = "loop" /\ Client.turn = 9 /\ Client.llm_calls = 9
    /\ call.op = "sleep" /\ call.args[1] = 60000

---------------------------------------------------------------------------
(* A LaunchSubagent action for a task the hub does not have.               *)

\* The next action of the running execute is a LaunchSubagent whose task_id
\* is not a key of the tasks of the handler's hub.
LaunchOfUnknownTask ==
    /\ stack # <<>> /\ Top.pc = "exec"
    /\ Top.actions[Top.cursor].type = "launch_subagent"
    /\ Top.actions[Top.cursor].task_id \notin DOMAIN hubs[Top.hub].tasks

\* C31: a LaunchSubagent action whose task_id is not a key of the hub's
\* tasks returns an error output with isError = true without running a
\* subagent or making any LLM call, and leaves the hub's tasks and context
\* store unchanged.
C31_UnknownTaskLaunch ==
    [][LaunchOfUnknownTask =>
          /\ Len(stack') = Len(stack)
          /\ \A i \in 1..Len(stack) : /\ stack'[i].llm_calls = stack[i].llm_calls
                                      /\ stack'[i].messages = stack[i].messages
          /\ hubs' = hubs
          /\ Top'.has_error
          /\ Top'.actions_executed = Append(Top.actions_executed, Top.actions[Top.cursor])
          /\ Top'.env_responses =
                 Append(Top.env_responses,
                        format_tool_output("subagent",
                            <<"[ERROR] Task not found", Top.actions[Top.cursor].task_id>>))
      ]_vars

\* The orchestrator has executed, after an AddContext, the launch of a task
\* its hub does not have.
C31_Witness ==
    /\ Len(stack) = 1 /\ stack[1].kind = "orch"
    /\ Len(stack[1].handled) = 2
    /\ stack[1].handled[2].action.type = "launch_subagent"
    /\ stack[1].handled[2].output.text[1] = "[ERROR] Task not found"
    /\ hubs[1].tasks = EmptyMap
    /\ stack[1].has_error

---------------------------------------------------------------------------
(* The runs of one task.                                                   *)

\* A handler of the agent on top starts a subagent in this step; the task
\* it runs is that of the activation left waiting.
StartsSubagent == Len(stack') = Len(stack) + 1
StartedTask == stack'[Len(stack)].pending[1].task_id

\* The task t of the hub h is completed.
Completed(h, t) == t \in DOMAIN hubs[h].tasks /\ hubs[h].tasks[t].status = "completed"

\* C32: each task is run by at most one subagent: once a task has status
\* completed, a later LaunchSubagent for the same task id starts no
\* subagent, and the task's result and completed_at never change again.
C32_CompletedTaskNotRerun ==
    [][/\ StartsSubagent => ~Completed(Top.hub, StartedTask)
       /\ \A h \in 1..Len(hubs) : \A t \in DOMAIN hubs[h].tasks :
              (Completed(h, t) /\ h <= Len(hubs')) =>
                  /\ hubs'[h].tasks[t].result = hubs[h].tasks[t].result
                  /\ hubs'[h].tasks[t].completed_at = hubs[h].tasks[t].completed_at
      ]_vars

\* C32 for what the hub does keep: a completed task stays in the hub with
\* status completed, a result and a completed_at, and its result and
\* completed_at change only when a subagent run for that task returns.
C32_CompletedTaskStaysCompleted ==
    [][\A h \in 1..Len(hubs) : \A t \in DOMAIN hubs[h].tasks :
           (Completed(h, t) /\ h <= Len(hubs')) =>
               /\ Completed(h, t)'
               /\ ~IsNone(hubs'[h].tasks[t].result)
               /\ ~IsNone(hubs'[h].tasks[t].completed_at)
               /\ \/ /\ hubs'[h].tasks[t].result = hubs[h].tasks[t].result
                     /\ hubs'[h].tasks[t].completed_at = hubs[h].tasks[t].completed_at
                  \/ /\ Len(stack') = Len(stack) - 1
                     /\ stack[Len(stack')].hub = h
                     /\ stack[Len(stack')].pending[1].task_id = t
      ]_vars

\* A second subagent is running for task_001, which the first run completed.
C32_Witness ==
    /\ Len(stack) = 2 /\ stack[1].kind = "orch" /\ stack[2].kind = "sub"
    /\ stack[1].pending[1].task_id = TaskId(1)
    /\ Completed(1, TaskId(1))

---------------------------------------------------------------------------
(* The agents that launch subagents.                                       *)

\* The subagents that are running or waiting for a subagent of their own
RunningSubagents == {i \in 1..Len(stack) : stack[i].kind = "sub"}

\* C33: only the orchestrator launches subagents: while a subagent is
\* running, no action in its replies (task_create with auto_launch,
\* launch_subagent) starts a further subagent, so at most one subagent is
\* running at any time and the agent nesting depth never exceeds two (the
\* orchestrator and one subagent).
C33_OnlyOrchestratorLaunches ==
    /\ [][(stack # <<>> /\ Top.kind = "sub") => ~StartsSubagent]_vars
    /\ [](Cardinality(RunningSubagents) <= 1)

\* C33 for what the sequential execution does give: the agents are nested,
\* only the innermost one takes steps while every other one waits inside
\* its launch handler for the run it started, and a subagent works on a hub
\* of its own, so the tasks it creates and launches are never those of the
\* agent that launched it.
C33_NestedRunsOnPrivateHubs ==
    /\ [](\A i \in 1..(Len(stack) - 1) :
              /\ stack[i].pc = "wait" /\ ~IsNone(stack[i].pending)
              /\ stack[i + 1].kind = "sub"
              /\ stack[i + 1].hub # stack[i].hub)
    /\ [][\A i \in 1..(Len(stack) - 1) :
              i < Len(stack') => /\ stack'[i].llm_calls = stack[i].llm_calls
                                 /\ stack'[i].pending = stack[i].pending]_vars

\* A subagent waits for the subagent that its own task_create with
\* auto_launch started: two subagents are running.
C33_Witness ==
    /\ Len(stack) = 2
    /\ stack[1].kind = "sub" /\ stack[1].pc = "wait" /\ stack[1].pending[1].via_create
    /\ stack[2].kind = "sub" /\ stack[2].llm_calls = 1

---------------------------------------------------------------------------
(* The error output of the TaskCreate handler.                             *)

\* The handler of the TaskCreate action executed in this step returns the
\* error output '[ERROR] Failed to create task ...' with isError = true.
TaskCreateFails ==
    /\ stack # <<>> /\ Top.pc = "exec"
    /\ Top.actions[Top.cursor].type = "task_create"
    /\ Len(stack') = Len(stack)
    /\ Len(Top'.env_responses) = Len(Top.env_responses) + 1
    /\ LET output == Top'.env_responses[Len(Top'.env_responses)]
       IN  /\ output.kind = "output" /\ output.tool = "task"
           /\ output.text[1] = "[ERROR] Failed to create task"
    /\ Top'.has_error

\* C34: whenever the TaskCreate handler returns an error output ('[ERROR]
\* Failed to create task ...' with isError = true), no task has been added
\* to the hub by that action: the hub's tasks and task counter are the same
\* as before the action.
C34_FailedCreateAddsNoTask ==
    [][TaskCreateFails =>
          /\ hubs'[Top.hub].tasks = hubs[Top.hub].tasks
          /\ hubs'[Top.hub].task_counter = hubs[Top.hub].task_counter]_vars

\* C34 for what the handler does: when it returns that error output, the
\* task was created before the auto-launch raised; the hub has one task
\* more, under the next id and with status created, the counter is one
\* higher, and no subagent was run.
C34_FailedCreateLeavesTask ==
    [][TaskCreateFails =>
          LET before == hubs[Top.hub]
              after  == hubs'[Top.hub]
              id     == TaskId(before.task_counter + 1)
          IN  /\ after.task_counter = before.task_counter + 1
              /\ DOMAIN after.tasks = DOMAIN before.tasks \cup {id}
              /\ after.tasks[id].status = "created"
              /\ after.tasks[id].agent_type = Top.actions[Top.cursor].agent_type
              /\ \A t \in DOMAIN before.tasks \ {id} : after.tasks[t] = before.tasks[t]
              /\ \A i \in 1..Len(stack) : stack'[i].llm_calls = stack[i].llm_calls]_vars

\* The orchestrator's TaskCreate returned the error output, and its hub
\* holds the task.
C34_Witness ==
    /\ Len(stack) = 1 /\ stack[1].kind = "orch"
    /\ Len(stack[1].handled) = 1
    /\ stack[1].handled[1].action.type = "task_create"
    /\ stack[1].handled[1].output.text[1] = "[ERROR] Failed to create task"
    /\ DOMAIN hubs[1].tasks = {TaskId(1)}
    /\ hubs[1].task_counter = 1

---------------------------------------------------------------------------
(* The num_turns of the report of a subagent run.                          *)

\* The subagent runs that have returned their report
ReturnedRuns == {i \in 1..Len(stack) : stack[i].kind = "sub" /\ stack[i].pc = "returned"}
ReportOf(i) == stack[i].returned[1]

\* The report is the fallback report of the end of run.
IsFallback(report) == report.contexts = <<>> /\ report.comments = FallbackComments

\* C35: for every report returned by Subagent.run (a normal report, a
\* forced report or the fallback report), meta.num_turns equals the number
\* of LLM calls the run attempted, and 1 <= meta.num_turns <= max_turns + 1.
C35_NumTurnsCountsCalls ==
    \A i \in ReturnedRuns :
        /\ ReportOf(i).meta[1].num_turns = Some(stack[i].llm_calls)
        /\ 1 <= ReportOf(i).meta[1].num_turns[1]
        /\ ReportOf(i).meta[1].num_turns[1] <= stack[i].max_turns + 1

\* C35 with the fallback report told apart: a normal or a forced report has
\* meta.num_turns equal to the number of LLM calls the run attempted, which
\* lies between 1 and max_turns + 1; the fallback report is returned after
\* max_turns + 1 attempted calls and has meta.num_turns = max_turns, one
\* less than the calls (0 when max_turns = 0).
C35_NumTurnsButForFallback ==
    \A i \in ReturnedRuns :
        /\ 1 <= stack[i].llm_calls /\ stack[i].llm_calls <= stack[i].max_turns + 1
        /\ IF IsFallback(ReportOf(i))
           THEN /\ stack[i].llm_calls = stack[i].max_turns + 1
                /\ ReportOf(i).meta[1].num_turns = Some(stack[i].max_turns)
           ELSE ReportOf(i).meta[1].num_turns = Some(stack[i].llm_calls)

\* A run with max_turns = 1 has returned the fallback report after two
\* attempted LLM calls, with meta.num_turns = 1.
C35_Witness ==
    /\ Len(stack) = 1 /\ ReturnedRuns = {1}
    /\ stack[1].max_turns = 1 /\ stack[1].llm_calls = 2
    /\ IsFallback(ReportOf(1))
    /\ ReportOf(1).meta[1].num_turns = Some(1)

---------------------------------------------------------------------------
(* The message list of a subagent at its LLM calls.                        *)

\* The subagent on top is about to call the LLM: for a turn of its loop, or
\* for the forced report once the turns are used up.
LLMCallDue == stack # <<>> /\ Top.kind = "sub" /\ Top.pc = "loop" /\ Top.phase = "turns"

\* The list the call is given: self.messages, after the report demand was
\* added when the call is the forced one.
MessagesToSend ==
    IF Top.turn < Top.max_turns THEN Top.messages ELSE WithForceReportMsg(Top.messages)

\* One system message, then user and assistant messages in strict
\* alternation, the last one a user message.
Alternating(messages) ==
    /\ Len(messages) >= 2
    /\ messages[1].role = "system"
    /\ \A i \in 2..Len(messages) :
           messages[i].role = IF i % 2 = 0 THEN "user" ELSE "assistant"
    /\ messages[Len(messages)].role = "user"

\* C36: at every LLM call of a subagent run, including the forced-report
\* call and runs in which earlier LLM calls raised, the message list is one
\* system message followed by strictly alternating user and assistant
\* messages that ends with a user message.
C36_MessagesAlternate == LLMCallDue => Alternating(MessagesToSend)

\* C36 without the strict alternation: at every LLM call of a subagent run
\* the message list begins with its one system message, ends with a user
\* message, and every assistant message stands directly after a user
\* message; user messages may stand next to each other.
C36_MessagesEndWithUser ==
    LLMCallDue =>
        LET messages == MessagesToSend
        IN  /\ Len(messages) >= 2
            /\ messages[1].role = "system"
            /\ \A i \in 2..Len(messages) : messages[i].role \in {"user", "assistant"}
            /\ \A i \in 2..Len(messages) :
                   messages[i].role = "assistant" => messages[i - 1].role = "user"
            /\ messages[Len(messages)].role = "user"

\* The forced call is due after a turn whose LLM call raised: the list is
\* system, user, user.
C36_Witness ==
    /\ LLMCallDue /\ Top.turn >= Top.max_turns /\ Top.llm_calls = 1
    /\ [i \in 1..Len(MessagesToSend) |-> MessagesToSend[i].role]
           = <<"system", "user", "user">>

---------------------------------------------------------------------------
(* The summary of OrchestratorAgent.run.                                   *)

\* The orchestrator's run has returned its summary.
RunReturned == Len(stack) = 1 /\ Orchestrator.kind = "orch" /\ Orchestrator.pc = "returned"
Summary == Orchestrator.returned[1]

---------------------------------------------------------------------------
(* The ids of the TodoManager.                                             *)

\* The ids the adds of the last batch were given, as its 'Added' lines
\* report them
AddedIds ==
    LET added == SelectSeq(LastOutput.results, LAMBDA l : l.kind = "added")
    IN  [j \in 1..Len(added) |-> added[j].task_id[1]]

\* C38: over any sequence of add_task, complete_task and delete_task calls
\* (without reset), TodoManager never hands out the same id twice: every
\* key of todos is smaller than next_id, next_id never decreases, and the
\* id of a deleted todo is not reused by a later add.  Every id handed out
\* before a batch is smaller than the next_id the batch began with, and the
\* adds of the batch are given next_id, next_id + 1, ... in turn.
C38_TodoIdsNeverReused ==
    /\ \A k \in DOMAIN TodoAgent.todo_manager.todos : k < TodoAgent.todo_manager.next_id
    /\ BatchExecuted =>
           LET before == ListBefore
               after  == TodoAgent.todo_manager
           IN  /\ \A k \in DOMAIN before.todos : k < before.next_id
               /\ after.next_id >= before.next_id
               /\ \A k \in (DOMAIN after.todos) \ (DOMAIN before.todos) :
                      before.next_id <= k /\ k < after.next_id
               /\ \A k \in (DOMAIN after.todos) \cap (DOMAIN before.todos) :
                      after.todos[k].content = before.todos[k].content
               /\ BatchReturned =>
                      /\ after.next_id = before.next_id + Len(AddedIds)
                      /\ \A j \in 1..Len(AddedIds) : AddedIds[j] = before.next_id + j - 1

\* A batch that began on a list whose todo 1 had been deleted has added a
\* todo: it was given the id 2.
C38_Witness ==
    /\ BatchReturned
    /\ ListBefore = [todos |-> EmptyMap, next_id |-> 2]
    /\ AddedIds = <<2>>
    /\ DOMAIN TodoAgent.todo_manager.todos = {2}
    /\ TodoAgent.todo_manager.next_id = 3

====
